---------------------------- MODULE Spec2Model ----------------------------
(***************************************************************************)
(* RitualRPA: the state/pairing engine (StateManager), the block lists     *)
(* (AccountManager) and the session orchestration (main.py) as state       *)
(* machines.  Dates are day numbers (NoDate stands for the empty string),  *)
(* dicts are functions, lists are sequences.                               *)
(***************************************************************************)
EXTENDS Integers, Sequences, FiniteSets, TLC

VARIABLES
    \* ---- StateManager (src/src/state_manager.py)
    accounts,              \* self.accounts: name -> AccountProgress
    daily_stats,           \* self.daily_stats: date -> DailyStats
    settings,              \* self.settings
    dirty,                 \* self._dirty
    state_file,            \* the JSON document on disk (state.json)
    today,                 \* date.today()
    \* ---- history of the StateManager calls of SpecStore
    nCalls,                \* number of record_action calls so far
    lastOp,                \* the last operation performed
    lastCall,              \* arguments of the last record_action call
    preCall,               \* counters before that call, and before its twin
    \* ---- AccountManager (src/src/account_manager.py)
    unauthorized_accounts, \* self._unauthorized_accounts: name -> record
    blocked_accounts,      \* self._blocked_accounts: name -> record
    block_accounts_enabled,\* self.block_accounts_enabled
    \* ---- a call of StateManager.get_optimal_pairs
    roster,                \* the accounts list of the configuration
    max_actions,           \* the max_actions argument
    plan,                  \* the list get_optimal_pairs returned
    planInfo,              \* the givers and the queue of that call
    \* ---- the execution of a plan (src/main.py)
    groups,                \* the sessions: (giver, actions) in order
    parallel,              \* ParallelConfig
    sessions,              \* position and counters of each execute_giver_batch
    active_profiles,       \* shutdown_handler.active_profiles
    is_shutting_down,      \* shutdown_handler.is_shutting_down
    totals,                \* total_completed, total_failed of the run
    cleanup                \* position and history of ShutdownHandler.cleanup

storeVars == <<accounts, daily_stats, settings, dirty, state_file, today>>
histVars  == <<nCalls, lastOp, lastCall, preCall>>
mgrVars   == <<unauthorized_accounts, blocked_accounts, block_accounts_enabled>>
planVars  == <<roster, max_actions, plan, planInfo>>
runVars   == <<groups, parallel, sessions, active_profiles, is_shutting_down,
               totals, cleanup>>
vars      == <<storeVars, histVars, mgrVars, planVars, runVars>>
nonStoreVars == <<mgrVars, planVars, runVars>>

----------------------------------------------------------------------------
\* Bounds of the model
MaxCalls == 2      \* record_action calls explored
MaxDay   == 2      \* days explored
MaxLimit == 1      \* daily limits the configuration may set
MaxRecv  == 1      \* received counters and targets of a planned roster
PlanLimit == 3     \* daily limit of a planned roster
MaxActions == 4    \* max_actions of a planning call
MaxSeed  == 1      \* draws of the shuffle
MaxWorkers == 2    \* parallel.max_workers
MaxRawWorkers == 6 \* the largest max_workers a configuration file gives
MaxCleanupCalls == 2   \* calls of ShutdownHandler.cleanup

\* Program constants
DEFAULT_DAILY_LIMIT  == 5
DEFAULT_TARGET_COUNT == 10
NoDate == 0

StoreNames == {"A", "B"}
Kinds      == {"bless", "curse"}
NoTime     == ""
Times      == {"12:00:00"}

----------------------------------------------------------------------------
\* dict helpers
EmptyDict == [x \in {} |-> 0]

DictSet(d, k, v) == [x \in (DOMAIN d) \cup {k} |-> IF x = k THEN v ELSE d[x]]

DictGet(d, k, default) == IF k \in DOMAIN d THEN d[k] ELSE default

Contains(seq, x) == \E i \in 1..Len(seq) : seq[i] = x

----------------------------------------------------------------------------
\* AccountProgress and DailyStats
NewAccountProgress ==
    [bless_received |-> 0, curse_received |-> 0,
     bless_given_today |-> 0, curse_given_today |-> 0,
     last_action_date |-> NoDate, last_action_time |-> NoTime]

\* a to_dict that leaves the time of the last action out of the document
AccountProgress_to_dict_no_time(p) ==
    [bless_received |-> p.bless_received, curse_received |-> p.curse_received,
     bless_given_today |-> p.bless_given_today,
     curse_given_today |-> p.curse_given_today,
     last_action_date |-> p.last_action_date]

AccountProgress_to_dict(p) ==
    [bless_received |-> p.bless_received, curse_received |-> p.curse_received,
     bless_given_today |-> p.bless_given_today,
     curse_given_today |-> p.curse_given_today,
     last_action_date |-> p.last_action_date,
     last_action_time |-> p.last_action_time]

AccountProgress_from_dict(data) ==
    [bless_received |-> DictGet(data, "bless_received", 0),
     curse_received |-> DictGet(data, "curse_received", 0),
     bless_given_today |-> DictGet(data, "bless_given_today", 0),
     curse_given_today |-> DictGet(data, "curse_given_today", 0),
     last_action_date |-> DictGet(data, "last_action_date", NoDate),
     last_action_time |-> DictGet(data, "last_action_time", NoTime)]

total_given_today(p) == p.bless_given_today + p.curse_given_today

\* a reset that forgets the curse counter
reset_daily_bless_only(p) == [p EXCEPT !.bless_given_today = 0]

reset_daily(p) == [p EXCEPT !.bless_given_today = 0, !.curse_given_today = 0]

NewDailyStats(day) ==
    [date |-> day, accounts_processed |-> <<>>, total_bless |-> 0,
     total_curse |-> 0, actions |-> <<>>]

DailyStats_to_dict(s) ==
    [date |-> s.date, accounts_processed |-> s.accounts_processed,
     total_bless |-> s.total_bless, total_curse |-> s.total_curse,
     actions |-> s.actions]

DailyStats_from_dict(data) ==
    [date |-> DictGet(data, "date", NoDate),
     accounts_processed |-> DictGet(data, "accounts_processed", <<>>),
     total_bless |-> DictGet(data, "total_bless", 0),
     total_curse |-> DictGet(data, "total_curse", 0),
     actions |-> DictGet(data, "actions", <<>>)]

default_settings(day) ==
    [daily_limit_per_account |-> DEFAULT_DAILY_LIMIT,
     target_bless |-> DEFAULT_TARGET_COUNT,
     target_curse |-> DEFAULT_TARGET_COUNT,
     created_at |-> day]

----------------------------------------------------------------------------
\* Persistence
NoFile == [exists |-> FALSE]

\* _save_state: the document written to disk
save_state_doc(accts, stats, sets, day) ==
    [exists |-> TRUE,
     doc |-> [settings |-> sets,
              accounts |-> [n \in DOMAIN accts |-> AccountProgress_to_dict(accts[n])],
              daily_stats |-> [d \in DOMAIN stats |-> DailyStats_to_dict(stats[d])],
              last_updated |-> day]]

\* _reset_daily_counters_if_needed: the accounts after the reset
reset_daily_counters(accts, day) ==
    [n \in DOMAIN accts |->
        IF accts[n].last_action_date /= NoDate /\ accts[n].last_action_date /= day
        THEN reset_daily(accts[n]) ELSE accts[n]]

\* whether _reset_daily_counters_if_needed resets at least one account
reset_needed(accts, day) ==
    \E n \in DOMAIN accts :
        accts[n].last_action_date /= NoDate /\ accts[n].last_action_date /= day

\* _load_state on an existing, readable file: the in-memory state it builds
load_state_doc(file, day) ==
    LET data  == file.doc
        accts == [n \in DOMAIN DictGet(data, "accounts", EmptyDict) |->
                     AccountProgress_from_dict(data.accounts[n])]
    IN [settings |-> DictGet(data, "settings", default_settings(day)),
        accounts |-> reset_daily_counters(accts, day),
        daily_stats |-> [d \in DOMAIN DictGet(data, "daily_stats", EmptyDict) |->
                            DailyStats_from_dict(data.daily_stats[d])],
        dirty |-> reset_needed(accts, day)]

\* _ensure_account_exists
ensure_account_exists(accts, name) ==
    IF name \in DOMAIN accts THEN accts ELSE DictSet(accts, name, NewAccountProgress)

\* a _get_or_create_daily_stats that starts the day's statistics anew
new_daily_stats(stats, day) == DictSet(stats, day, NewDailyStats(day))

\* _get_or_create_daily_stats
get_or_create_daily_stats(stats, day) ==
    IF day \in DOMAIN stats THEN stats ELSE DictSet(stats, day, NewDailyStats(day))

----------------------------------------------------------------------------
\* record_action, up to the write to disk

\* a record_action that counts a failed action as it counts a successful one
record_action_counting_failures(accts, stats, g, r, kind, success, day, t) ==
    LET a1 == ensure_account_exists(ensure_account_exists(accts, g), r)
        a2 == IF kind = "bless"
              THEN [a1 EXCEPT ![g].bless_given_today = @ + 1,
                              ![r].bless_received = @ + 1]
              ELSE [a1 EXCEPT ![g].curse_given_today = @ + 1,
                              ![r].curse_received = @ + 1]
        s1 == get_or_create_daily_stats(stats, day)
        s2 == [s1 EXCEPT ![day].accounts_processed =
                            IF Contains(@, g) THEN @ ELSE Append(@, g),
                         ![day].actions =
                            Append(@, [time |-> t, giver |-> g, receiver |-> r,
                                       action |-> kind, success |-> success])]
    IN [accounts |-> [a2 EXCEPT ![g].last_action_date = day,
                                ![g].last_action_time = t],
        daily_stats |-> s2]

\* a record_action that drops a call repeating the last logged action
record_action_dedup(accts, stats, g, r, kind, success, day, t) ==
    LET entry == [time |-> t, giver |-> g, receiver |-> r, action |-> kind,
                  success |-> success]
        a1 == ensure_account_exists(ensure_account_exists(accts, g), r)
        s1 == get_or_create_daily_stats(stats, day)
        log == s1[day].actions
        dup == Len(log) > 0 /\ log[Len(log)] = entry
        a2 == IF dup \/ ~success THEN a1
              ELSE IF kind = "bless"
              THEN [a1 EXCEPT ![g].bless_given_today = @ + 1,
                              ![r].bless_received = @ + 1]
              ELSE [a1 EXCEPT ![g].curse_given_today = @ + 1,
                              ![r].curse_received = @ + 1]
        s2 == IF dup THEN s1
              ELSE [s1 EXCEPT ![day].actions = Append(@, entry),
                        ![day].total_bless = IF success /\ kind = "bless" THEN @ + 1 ELSE @,
                        ![day].total_curse = IF success /\ kind = "curse" THEN @ + 1 ELSE @,
                        ![day].accounts_processed =
                            IF Contains(@, g) THEN @ ELSE Append(@, g)]
    IN [accounts |-> [a2 EXCEPT ![g].last_action_date = day,
                                ![g].last_action_time = t],
        daily_stats |-> s2]

record_action(accts, stats, g, r, kind, success, day, t) ==
    LET a1 == ensure_account_exists(ensure_account_exists(accts, g), r)
        a2 == IF success /\ kind = "bless"
              THEN [a1 EXCEPT ![g].bless_given_today = @ + 1,
                              ![r].bless_received = @ + 1]
              ELSE IF success /\ kind = "curse"
              THEN [a1 EXCEPT ![g].curse_given_today = @ + 1,
                              ![r].curse_received = @ + 1]
              ELSE a1
        a3 == [a2 EXCEPT ![g].last_action_date = day,
                         ![g].last_action_time = t]
        s1 == get_or_create_daily_stats(stats, day)
        s2 == [s1 EXCEPT ![day].accounts_processed =
                            IF Contains(@, g) THEN @ ELSE Append(@, g)]
        s3 == IF success /\ kind = "bless"
              THEN [s2 EXCEPT ![day].total_bless = @ + 1]
              ELSE IF success /\ kind = "curse"
              THEN [s2 EXCEPT ![day].total_curse = @ + 1]
              ELSE s2
        s4 == [s3 EXCEPT ![day].actions =
                  Append(@, [time |-> t, giver |-> g, receiver |-> r,
                             action |-> kind, success |-> success])]
    IN [accounts |-> a3, daily_stats |-> s4]

\* counters read by the history variables
GivenOf(accts, n, kind) ==
    IF n \notin DOMAIN accts THEN 0
    ELSE IF kind = "bless" THEN accts[n].bless_given_today
    ELSE accts[n].curse_given_today

ReceivedOf(accts, n, kind) ==
    IF n \notin DOMAIN accts THEN 0
    ELSE IF kind = "bless" THEN accts[n].bless_received
    ELSE accts[n].curse_received

LogLen(stats, day) == IF day \in DOMAIN stats THEN Len(stats[day].actions) ELSE 0

NoCall == [giver |-> "", receiver |-> "", action |-> "", success |-> FALSE]

\* the counters a record_action(g, r, kind, ...) call is about to change
Snapshot(accts, stats, day, g, r, kind) ==
    [given |-> GivenOf(accts, g, kind), received |-> ReceivedOf(accts, r, kind),
     loglen |-> LogLen(stats, day)]

NoPre == [repeated |-> FALSE,
          last |-> [given |-> 0, received |-> 0, loglen |-> 0],
          twin |-> [given |-> 0, received |-> 0, loglen |-> 0]]

----------------------------------------------------------------------------
\* StateManager: construction and operations

\* StateManager("state.json") in a process started on day `today`, no file yet
InitStore ==
    /\ today = 1
    /\ accounts = EmptyDict
    /\ daily_stats = EmptyDict
    /\ settings = default_settings(1)
    /\ dirty = FALSE
    /\ state_file = save_state_doc(EmptyDict, EmptyDict, default_settings(1), 1)
    /\ nCalls = 0
    /\ lastOp = "other"
    /\ lastCall = NoCall
    /\ preCall = NoPre

\* StateManager.record_action(giver_name, receiver_name, action_type, success)
RecordAction(g, r, kind, success, t) ==
    LET res == record_action(accounts, daily_stats, g, r, kind, success, today, t)
    IN /\ nCalls < MaxCalls
       /\ accounts' = res.accounts
       /\ daily_stats' = res.daily_stats
       /\ state_file' = save_state_doc(res.accounts, res.daily_stats, settings, today)
       /\ dirty' = FALSE
       /\ nCalls' = nCalls + 1
       /\ lastOp' = "record"
       /\ lastCall' = [giver |-> g, receiver |-> r, action |-> kind,
                       success |-> success]
       /\ preCall' = [repeated |-> (lastOp = "record" /\ lastCall' = lastCall),
                       last |-> Snapshot(accounts, daily_stats, today, g, r, kind),
                       twin |-> preCall.last]
       /\ UNCHANGED <<settings, today, nonStoreVars>>

\* StateManager.can_give_action_today(account_name)
CanGiveActionToday(name) ==
    /\ accounts' = ensure_account_exists(reset_daily_counters(accounts, today), name)
    /\ dirty' = (dirty \/ reset_needed(accounts, today) \/ name \notin DOMAIN accounts)
    /\ lastOp' = "other"
    /\ lastCall' = NoCall
    /\ preCall' = NoPre
    /\ UNCHANGED <<daily_stats, settings, state_file, today, nCalls, nonStoreVars>>

\* StateManager.save_if_dirty()
SaveIfDirty ==
    /\ dirty
    /\ state_file' = save_state_doc(accounts, daily_stats, settings, today)
    /\ dirty' = FALSE
    /\ lastOp' = "other"
    /\ lastCall' = NoCall
    /\ preCall' = NoPre
    /\ UNCHANGED <<accounts, daily_stats, settings, today, nCalls, nonStoreVars>>

\* StateManager.update_settings(daily_limit_per_account=..., target_bless=..., target_curse=...)
UpdateSettings(limit, tb, tc) ==
    /\ settings' = [settings EXCEPT !.daily_limit_per_account = limit,
                                    !.target_bless = tb, !.target_curse = tc]
    /\ settings' /= settings
    /\ state_file' = save_state_doc(accounts, daily_stats, settings', today)
    /\ dirty' = FALSE
    /\ lastOp' = "other"
    /\ lastCall' = NoCall
    /\ preCall' = NoPre
    /\ UNCHANGED <<accounts, daily_stats, today, nCalls, nonStoreVars>>

\* a new process: StateManager.__init__ and its _load_state on the existing file
LoadState ==
    LET st == load_state_doc(state_file, today)
    IN /\ state_file.exists
       /\ lastOp /= "load"
       /\ accounts' = st.accounts
       /\ daily_stats' = st.daily_stats
       /\ settings' = st.settings
       /\ dirty' = st.dirty
       /\ lastOp' = "load"
       /\ lastCall' = NoCall
       /\ preCall' = NoPre
       /\ UNCHANGED <<state_file, today, nCalls, nonStoreVars>>

\* midnight passes
DayChange ==
    /\ today < MaxDay
    /\ today' = today + 1
    /\ lastOp' = "other"
    /\ lastCall' = NoCall
    /\ preCall' = NoPre
    /\ UNCHANGED <<accounts, daily_stats, settings, dirty, state_file, nCalls, nonStoreVars>>

NextStore ==
    \/ \E g \in StoreNames : \E r \in StoreNames \ {g} :
          \E kind \in Kinds, success \in BOOLEAN, t \in Times :
              RecordAction(g, r, kind, success, t)
    \/ \E name \in StoreNames : CanGiveActionToday(name)
    \/ SaveIfDirty
    \/ \E limit \in 1..MaxLimit : UpdateSettings(limit, DEFAULT_TARGET_COUNT, DEFAULT_TARGET_COUNT)
    \/ LoadState
    \/ DayChange

NoPlan == [planned |-> FALSE]

InitIdlePlanner ==
    /\ unauthorized_accounts = EmptyDict
    /\ blocked_accounts = EmptyDict
    /\ block_accounts_enabled = TRUE
    /\ roster = <<>>
    /\ max_actions = 0
    /\ plan = <<>>
    /\ planInfo = NoPlan

InitIdleRun ==
    /\ groups = <<>>
    /\ parallel = [enabled |-> FALSE, max_workers |-> 1]
    /\ sessions = <<>>
    /\ active_profiles = <<>>
    /\ is_shutting_down = FALSE
    /\ totals = [completed |-> 0, failed |-> 0]
    /\ cleanup = [pc |-> "idle", todo |-> <<>>, calls |-> 0, loops |-> 0,
                  closes |-> 0, stops |-> <<>>]

InitStoreOnly == InitStore /\ InitIdlePlanner /\ InitIdleRun

SpecStore == InitStoreOnly /\ [][NextStore]_vars

----------------------------------------------------------------------------
\* AccountManager: the two block lists

NoId == ""

\* is_account_unauthorized(account_name, adspower_id) on self._unauthorized_accounts
is_account_unauthorized(unauthorized, name, id) ==
    \/ name \in DOMAIN unauthorized
    \/ /\ id /= NoId
       /\ \E k \in DOMAIN unauthorized : unauthorized[k].adspower_id = id

\* a channel check that looks the name up only
is_account_channel_blocked_by_name(blocked, name, id) == name \in DOMAIN blocked

\* is_account_channel_blocked(account_name, adspower_id) on self._blocked_accounts
is_account_channel_blocked(blocked, name, id) ==
    \/ name \in DOMAIN blocked
    \/ /\ id /= NoId
       /\ \E k \in DOMAIN blocked : blocked[k].adspower_id = id

\* a check that finds no account blocked
is_account_blocked_never(unauthorized, blocked, name, id) == FALSE

\* is_account_blocked(account_name, adspower_id)
is_account_blocked(unauthorized, blocked, name, id) ==
    is_account_unauthorized(unauthorized, name, id)
        \/ is_account_channel_blocked(blocked, name, id)

----------------------------------------------------------------------------
\* StateManager.get_optimal_pairs and its helpers

Min(a, b) == IF a < b THEN a ELSE b
Max(a, b) == IF a > b THEN a ELSE b

\* seq[:n] of Python
SliceTo(seq, n) ==
    IF n >= 0 THEN SubSeq(seq, 1, Min(n, Len(seq)))
    ELSE SubSeq(seq, 1, Max(0, Len(seq) + n))

\* list.sort(key=..., reverse=True): stable, greatest key first; keys[i] is
\* the key of seq[i]
SortDescending(seq, keys) ==
    LET pos(i) == 1 + Cardinality({j \in 1..Len(seq) :
                        keys[j] > keys[i] \/ (keys[j] = keys[i] /\ j < i)})
    IN [p \in 1..Len(seq) |-> seq[CHOOSE i \in 1..Len(seq) : pos(i) = p]]

\* a remaining count without the max(0, ...)
bless_remaining_unclamped(accts, sets, name) ==
    sets.target_bless - accts[name].bless_received

\* needs_bless / needs_curse: the remaining count
bless_remaining(accts, sets, name) == Max(0, sets.target_bless - accts[name].bless_received)
curse_remaining(accts, sets, name) == Max(0, sets.target_curse - accts[name].curse_received)

\* the state of self.accounts after the loop of _ensure_account_exists
RECURSIVE ensure_all(_, _)
ensure_all(accts, accs) ==
    IF accs = <<>> THEN accts
    ELSE ensure_all(ensure_account_exists(accts, Head(accs).name), Tail(accs))

\* _get_available_givers(accounts, account_mgr), from the i-th account on
RECURSIVE get_available_givers(_, _, _, _)
get_available_givers(accs, i, accts, sets) ==
    IF i > Len(accs) THEN <<>>
    ELSE LET acc  == accs[i]
             rest == get_available_givers(accs, i + 1, accts, sets)
             daily_limit == sets.daily_limit_per_account
         IN IF is_account_blocked(unauthorized_accounts, blocked_accounts,
                                  acc.name, acc.adspower_id) THEN rest
            ELSE IF total_given_today(accts[acc.name]) >= daily_limit THEN rest
            ELSE <<[name |-> acc.name, adspower_id |-> acc.adspower_id,
                    remaining_today |->
                        daily_limit - total_given_today(accts[acc.name])]>> \o rest

\* the loop of _get_accounts_needing_actions, from the i-th account on
RECURSIVE accounts_needing(_, _, _, _)
accounts_needing(accs, i, accts, sets) ==
    IF i > Len(accs) THEN <<>>
    ELSE LET acc  == accs[i]
             rest == accounts_needing(accs, i + 1, accts, sets)
             br   == bless_remaining(accts, sets, acc.name)
             cr   == curse_remaining(accts, sets, acc.name)
         IN IF is_account_blocked(unauthorized_accounts, blocked_accounts,
                                  acc.name, acc.adspower_id) THEN rest
            ELSE IF br > 0 \/ cr > 0
            THEN <<[name |-> acc.name, adspower_id |-> acc.adspower_id,
                    needs_bless |-> br > 0, bless_remaining |-> br,
                    needs_curse |-> cr > 0, curse_remaining |-> cr,
                    total_needed |-> br + cr]>> \o rest
            ELSE rest

\* _get_accounts_needing_actions(accounts, account_mgr)
get_accounts_needing_actions(accs, accts, sets) ==
    LET needs_list == accounts_needing(accs, 1, accts, sets)
    IN SortDescending(needs_list,
                      [i \in 1..Len(needs_list) |-> needs_list[i].total_needed])

\* a list of actions that asks for a bless for every receiver of the list
RECURSIVE build_action_queue_always(_)
build_action_queue_always(receivers) ==
    IF receivers = <<>> THEN <<>>
    ELSE LET receiver == Head(receivers)
         IN <<[receiver |-> receiver, action |-> "bless",
               priority |-> receiver.bless_remaining]>>
            \o (IF receiver.needs_curse
                THEN <<[receiver |-> receiver, action |-> "curse",
                        priority |-> receiver.curse_remaining]>>
                ELSE <<>>)
            \o build_action_queue_always(Tail(receivers))

\* _build_pairs_even: the list of all needed actions, before the sort
RECURSIVE build_action_queue(_)
build_action_queue(receivers) ==
    IF receivers = <<>> THEN <<>>
    ELSE LET receiver == Head(receivers)
         IN (IF receiver.needs_bless
             THEN <<[receiver |-> receiver, action |-> "bless",
                     priority |-> receiver.bless_remaining]>>
             ELSE <<>>)
            \o (IF receiver.needs_curse
                THEN <<[receiver |-> receiver, action |-> "curse",
                        priority |-> receiver.curse_remaining]>>
                ELSE <<>>)
            \o build_action_queue(Tail(receivers))

\* an untruncated queue
truncate_queue_not(queue, n) == queue

\* _build_pairs_even: action_queue = action_queue[:max_actions]
truncate_queue(queue, n) == SliceTo(queue, n)

\* _build_pairs_even: the sorted and truncated queue
action_queue_of(receivers, n) ==
    LET queue == build_action_queue(receivers)
    IN truncate_queue(SortDescending(queue,
                          [i \in 1..Len(queue) |-> queue[i].priority]), n)

\* a candidate test that forgets the receiver
candidate_ok_any(candidate, receiver) == candidate.remaining_today > 0

\* a candidate test that forgets the capacity left
candidate_ok_unlimited(candidate, receiver) == candidate.name /= receiver.name

\* _build_pairs_even: the test of a candidate giver in the while loop
candidate_ok(candidate, receiver) ==
    candidate.name /= receiver.name /\ candidate.remaining_today > 0

\* _build_pairs_even: the while loop; giver_idx is 0-based as in the code
RECURSIVE find_giver(_, _, _, _)
find_giver(givers, giver_idx, receiver, attempts) ==
    IF attempts >= Len(givers)
    THEN [found |-> FALSE, giver_idx |-> giver_idx]
    ELSE IF candidate_ok(givers[giver_idx + 1], receiver)
    THEN [found |-> TRUE, giver_idx |-> giver_idx]
    ELSE find_giver(givers, (giver_idx + 1) % Len(givers), receiver, attempts + 1)

\* min(usage.values()); usage is the dict {0: n0, 1: n1, ...}
MinOf(usage) ==
    CHOOSE m \in {usage[i] : i \in DOMAIN usage} : \A i \in DOMAIN usage : m <= usage[i]

\* _find_next_giver_idx: the for loop, i-th iteration
RECURSIVE find_next_from(_, _, _, _, _)
find_next_from(givers, current_idx, usage, min_usage, i) ==
    IF i >= Len(givers) THEN (current_idx + 1) % Len(givers)
    ELSE LET idx == (current_idx + 1 + i) % Len(givers)
         IN IF usage[idx] = min_usage /\ givers[idx + 1].remaining_today > 0
            THEN idx
            ELSE find_next_from(givers, current_idx, usage, min_usage, i + 1)

\* _find_next_giver_idx(givers, current_idx, usage)
find_next_giver_idx(givers, current_idx, usage) ==
    IF givers = <<>> THEN 0
    ELSE find_next_from(givers, current_idx, usage, MinOf(usage), 0)

\* givers.index(giver): the first position holding an equal dict (0-based)
index_of(givers, giver) ==
    (CHOOSE i \in 1..Len(givers) :
        givers[i] = giver /\ \A j \in 1..(i - 1) : givers[j] /= giver) - 1

\* _build_pairs_even: the for loop over the queue, from its k-th item on
RECURSIVE assign_givers(_, _, _, _, _, _)
assign_givers(queue, k, givers, usage, giver_idx, pairs) ==
    IF k > Len(queue) THEN [pairs |-> pairs, usage |-> usage]
    ELSE LET item == queue[k]
             f    == find_giver(givers, giver_idx, item.receiver, 0)
         IN IF ~f.found
            THEN assign_givers(queue, k + 1, givers, usage, f.giver_idx, pairs)
            ELSE LET gi == f.giver_idx + 1
                     giver == givers[gi]
                     pair == [giver |-> [name |-> giver.name,
                                         adspower_id |-> giver.adspower_id],
                              receiver |-> [name |-> item.receiver.name,
                                            adspower_id |-> item.receiver.adspower_id],
                              action |-> item.action,
                              index |-> Len(pairs) + 1]
                     givers2 == [givers EXCEPT ![gi].remaining_today = @ - 1]
                     usage2 == [usage EXCEPT ![index_of(givers2, givers2[gi])] = @ + 1]
                 IN assign_givers(queue, k + 1, givers2, usage2,
                        find_next_giver_idx(givers2, f.giver_idx, usage2),
                        Append(pairs, pair))

\* _build_pairs_even(givers, receivers, max_actions)
build_pairs_even(givers, receivers, n) ==
    IF givers = <<>> \/ receivers = <<>> THEN <<>>
    ELSE LET res == assign_givers(action_queue_of(receivers, n), 1, givers,
                                  [i \in 0..(Len(givers) - 1) |-> 0], 0, <<>>)
         IN [i \in 1..Len(res.pairs) |->
                [giver |-> res.pairs[i].giver, receiver |-> res.pairs[i].receiver,
                 action |-> res.pairs[i].action, index |-> res.pairs[i].index,
                 total |-> Len(res.pairs)]]

\* random.shuffle(x): for i in reversed(range(1, len(x))) swap x[i] with
\* x[randbelow(i + 1)]; the draws are the mixed-radix digits of rnd
RECURSIVE shuffle_from(_, _, _)
shuffle_from(x, i, rnd) ==
    IF i < 1 THEN x
    ELSE LET j == rnd % (i + 1)
         IN shuffle_from([x EXCEPT ![i + 1] = x[j + 1], ![j + 1] = x[i + 1]],
                         i - 1, rnd \div (i + 1))

shuffle(x, rnd) == shuffle_from(x, Len(x) - 1, rnd)

\* get_optimal_pairs(accounts, max_actions, account_mgr): the list returned
\* and the state of the StateManager it leaves
get_optimal_pairs(accs, n, accts, sets, day, rnd) ==
    LET ensured == ensure_all(accts, accs)
        called  == \E i \in 1..Len(accs) :
                      ~is_account_blocked(unauthorized_accounts, blocked_accounts,
                                          accs[i].name, accs[i].adspower_id)
        after   == IF called THEN reset_daily_counters(ensured, day) ELSE ensured
        givers  == get_available_givers(accs, 1, after, sets)
        needs   == IF givers = <<>> THEN <<>>
                   ELSE get_accounts_needing_actions(accs, after, sets)
        pairs   == build_pairs_even(givers, needs, n)
        mixed   == shuffle(pairs, rnd)
    IN [pairs |-> [i \in 1..Len(mixed) |-> [mixed[i] EXCEPT !.index = i]],
        accounts |-> after,
        saved |-> ensured /= accts,
        saved_accounts |-> ensured,
        dirty |-> called /\ reset_needed(ensured, day),
        givers |-> givers,
        needed |-> Len(build_action_queue(needs)),
        queue_len |-> Len(action_queue_of(needs, n))]

----------------------------------------------------------------------------
\* A call of get_optimal_pairs on a StateManager loaded from a state file

PlanNames == {"A", "B", "C"}
ProfileOf == [n \in PlanNames |-> IF n = "A" THEN "p1" ELSE IF n = "B" THEN "p2" ELSE "p3"]
Account(n) == [name |-> n, adspower_id |-> ProfileOf[n]]
FullRoster == <<Account("A"), Account("B"), Account("C")>>

BlockRecord(n, id, why) == [account_name |-> n, adspower_id |-> id, reason |-> why]

\* the unauthorized list: empty, or a record of A
UnauthorizedChoices ==
    {EmptyDict, [n \in {"A"} |-> BlockRecord("A", "p1", "unauthorized")]}

\* the channel list: empty, or a record kept under an older name of C's profile
BlockedChoices ==
    {EmptyDict, [n \in {"C_old"} |-> BlockRecord("C_old", "p3", "no channel access")]}

\* the progress of an account in the loaded state: each target met or not,
\* the daily limit used up or not, or more blesses received than the target
ProgressChoices ==
    {[bless_received |-> b, curse_received |-> c,
      bless_given_today |-> g, curse_given_today |-> 0,
      last_action_date |-> IF g > 0 THEN 1 ELSE NoDate,
      last_action_time |-> IF g > 0 THEN "12:00:00" ELSE NoTime] :
        b \in {0, MaxRecv}, c \in {0, MaxRecv}, g \in {0, PlanLimit}}
    \cup {[bless_received |-> MaxRecv + 1, curse_received |-> MaxRecv,
           bless_given_today |-> 0, curse_given_today |-> 0,
           last_action_date |-> NoDate, last_action_time |-> NoTime]}

RosterNames(accs) == {accs[i].name : i \in 1..Len(accs)}

InitPlan ==
    /\ today = 1
    /\ \E k \in 1..Len(FullRoster) : roster = SubSeq(FullRoster, 1, k)
    /\ max_actions \in 0..MaxActions
    /\ unauthorized_accounts \in UnauthorizedChoices
    /\ blocked_accounts \in BlockedChoices
    /\ block_accounts_enabled = TRUE
    /\ settings = [daily_limit_per_account |-> PlanLimit, target_bless |-> MaxRecv,
                   target_curse |-> MaxRecv, created_at |-> 1]
    /\ \/ accounts = EmptyDict
       \/ accounts \in [RosterNames(roster) -> ProgressChoices]
    /\ daily_stats = EmptyDict
    /\ dirty = FALSE
    /\ state_file = save_state_doc(accounts, daily_stats, settings, 1)
    /\ plan = <<>>
    /\ planInfo = NoPlan
    /\ nCalls = 0
    /\ lastOp = "load"
    /\ lastCall = NoCall
    /\ preCall = NoPre
    /\ InitIdleRun

\* state_mgr.get_optimal_pairs(accounts, max_actions=max_actions, account_mgr=account_mgr)
GetOptimalPairs(rnd) ==
    LET res == get_optimal_pairs(roster, max_actions, accounts, settings, today, rnd)
    IN /\ ~planInfo.planned
       /\ plan' = res.pairs
       /\ accounts' = res.accounts
       /\ state_file' = IF dirty \/ res.saved
                        THEN save_state_doc(res.saved_accounts, daily_stats, settings, today)
                        ELSE state_file
       /\ dirty' = res.dirty
       /\ planInfo' = [planned |-> TRUE, givers |-> res.givers,
                       needed |-> res.needed, queue_len |-> res.queue_len]
       /\ lastOp' = "other"
       /\ UNCHANGED <<daily_stats, settings, today, nCalls, lastCall, preCall,
                      mgrVars, roster, max_actions, runVars>>

NextPlan == \E rnd \in 0..MaxSeed : GetOptimalPairs(rnd)

SpecPlan == InitPlan /\ [][NextPlan]_vars

----------------------------------------------------------------------------
\* StateManager.__init__ on a state file that may be damaged

\* what json.load or the building of the objects meets in the file: nothing
\* wrong, text that is not JSON, an "accounts" entry or a "daily_stats" entry
\* of the wrong shape
FileDamage == {"json", "accounts", "daily_stats"}

Damage(file) ==
    IF file.exists /\ "damage" \in DOMAIN file THEN file.damage ELSE "none"

\* StateManager.__init__: the defaults, then _load_state, whose result is
\* dropped; ok is the value _load_state returned
StateManager_init(file, day) ==
    LET fresh == [settings |-> default_settings(day), accounts |-> EmptyDict,
                  daily_stats |-> EmptyDict, dirty |-> FALSE]
        sets == DictGet(file.doc, "settings", default_settings(day))
        accts == [n \in DOMAIN DictGet(file.doc, "accounts", EmptyDict) |->
                     AccountProgress_from_dict(file.doc.accounts[n])]
    IN IF ~file.exists
       THEN [state |-> fresh, ok |-> TRUE,
             file |-> save_state_doc(EmptyDict, EmptyDict, default_settings(day), day)]
       ELSE IF Damage(file) = "json"
       THEN [state |-> fresh, ok |-> FALSE, file |-> file]
       ELSE IF Damage(file) = "accounts"
       THEN [state |-> [fresh EXCEPT !.settings = sets], ok |-> FALSE, file |-> file]
       ELSE IF Damage(file) = "daily_stats"
       THEN [state |-> [fresh EXCEPT !.settings = sets, !.accounts = accts],
             ok |-> FALSE, file |-> file]
       ELSE [state |-> load_state_doc(file, day), ok |-> TRUE, file |-> file]

\* the first process, started with no state file, and the roster it plans for
InitLoad ==
    /\ InitStore
    /\ unauthorized_accounts = EmptyDict
    /\ blocked_accounts = EmptyDict
    /\ block_accounts_enabled = TRUE
    /\ roster = FullRoster
    /\ max_actions = MaxActions
    /\ plan = <<>>
    /\ planInfo = NoPlan
    /\ InitIdleRun

\* the state file is damaged on disk
FileDamaged(kind) ==
    /\ state_file.exists
    /\ Damage(state_file) = "none"
    /\ state_file' = [exists |-> TRUE, doc |-> state_file.doc, damage |-> kind]
    /\ lastOp' = "other"
    /\ UNCHANGED <<accounts, daily_stats, settings, dirty, today, nCalls, lastCall,
                   preCall, nonStoreVars>>

\* how a write of _save_state fails: open() raises and the file stays as it
\* was, or json.dump raises after open(..., 'w') emptied the file
WriteFailure == {"refused", "partial"}

\* _save_state: the file after a write that raised; the exception is logged
\* and False is returned
failed_save_state(file, how) ==
    IF how = "refused" THEN file
    ELSE [exists |-> TRUE, doc |-> EmptyDict, damage |-> "json"]

\* StateManager.record_action whose _save_state fails: record_action drops
\* the False it returns
RecordActionUnsaved(g, r, kind, success, t, how) ==
    LET res == record_action(accounts, daily_stats, g, r, kind, success, today, t)
    IN /\ nCalls < MaxCalls
       /\ accounts' = res.accounts
       /\ daily_stats' = res.daily_stats
       /\ state_file' = failed_save_state(state_file, how)
       /\ nCalls' = nCalls + 1
       /\ lastOp' = "record"
       /\ lastCall' = [giver |-> g, receiver |-> r, action |-> kind,
                       success |-> success]
       /\ preCall' = NoPre
       /\ UNCHANGED <<settings, dirty, today, nonStoreVars>>

\* a new process: StateManager("state.json") of main_async
StartProcess ==
    LET st == StateManager_init(state_file, today)
    IN /\ lastOp /= "load"
       /\ accounts' = st.state.accounts
       /\ daily_stats' = st.state.daily_stats
       /\ settings' = st.state.settings
       /\ dirty' = st.state.dirty
       /\ state_file' = st.file
       /\ lastOp' = "load"
       /\ lastCall' = NoCall
       /\ preCall' = NoPre
       /\ plan' = <<>>
       /\ planInfo' = NoPlan
       /\ UNCHANGED <<today, nCalls, mgrVars, roster, max_actions, runVars>>

NextLoad ==
    \/ \E g \in StoreNames : \E r \in StoreNames \ {g} :
          \E kind \in Kinds, success \in BOOLEAN, t \in Times :
              RecordAction(g, r, kind, success, t)
    \/ \E g \in StoreNames : \E r \in StoreNames \ {g} :
          \E kind \in Kinds, success \in BOOLEAN, t \in Times, how \in WriteFailure :
              RecordActionUnsaved(g, r, kind, success, t, how)
    \/ \E rnd \in 0..MaxSeed : GetOptimalPairs(rnd)
    \/ \E kind \in FileDamage : FileDamaged(kind)
    \/ StartProcess

SpecLoad == InitLoad /\ [][NextLoad]_vars

----------------------------------------------------------------------------
\* main.py: the execution of a plan (_execute_pairs, execute_giver_batch) and
\* the ShutdownHandler

\* group_pairs_by_giver: order of first appearance of the giver names
RECURSIVE giver_order(_, _)
giver_order(pairs, order) ==
    IF pairs = <<>> THEN order
    ELSE giver_order(Tail(pairs),
                     IF Contains(order, Head(pairs).giver.name) THEN order
                     ELSE Append(order, Head(pairs).giver.name))

\* group_pairs_by_giver: groups[name] of one giver name
group_of(pairs, name) ==
    LET own == SelectSeq(pairs, LAMBDA p : p.giver.name = name)
    IN [giver |-> own[1].giver,
        actions |-> [i \in 1..Len(own) |->
                        [receiver |-> own[i].receiver, action |-> own[i].action]]]

\* a grouping that returns the groups last giver first
group_pairs_by_giver_reversed(pairs) ==
    LET order == giver_order(pairs, <<>>)
    IN [i \in 1..Len(order) |-> group_of(pairs, order[Len(order) + 1 - i])]

\* group_pairs_by_giver(pairs)
group_pairs_by_giver(pairs) ==
    LET order == giver_order(pairs, <<>>)
    IN [i \in 1..Len(order) |-> group_of(pairs, order[i])]

\* chunks that are one action longer than the bound
RECURSIVE split_group_longer(_, _, _)
split_group_longer(giver, actions, m) ==
    IF Len(actions) <= m + 1 THEN <<[giver |-> giver, actions |-> actions]>>
    ELSE <<[giver |-> giver, actions |-> SubSeq(actions, 1, m + 1)]>>
         \o split_group_longer(giver, SubSeq(actions, m + 2, Len(actions)), m)

\* _execute_pairs: the chunks actions[i:i + max_actions_per_session] of a group
RECURSIVE split_group(_, _, _)
split_group(giver, actions, m) ==
    IF Len(actions) <= m THEN <<[giver |-> giver, actions |-> actions]>>
    ELSE <<[giver |-> giver, actions |-> SubSeq(actions, 1, m)]>>
         \o split_group(giver, SubSeq(actions, m + 1, Len(actions)), m)

\* _execute_pairs: limited_groups
RECURSIVE limit_groups(_, _)
limit_groups(gs, m) ==
    IF gs = <<>> THEN <<>>
    ELSE split_group(Head(gs).giver, Head(gs).actions, m) \o limit_groups(Tail(gs), m)

\* _execute_pairs: the sessions made of the plan
make_groups(pairs, batch_mode) ==
    IF batch_mode.enabled
    THEN IF batch_mode.max_actions_per_session > 0
         THEN limit_groups(group_pairs_by_giver(pairs), batch_mode.max_actions_per_session)
         ELSE group_pairs_by_giver(pairs)
    ELSE [i \in 1..Len(pairs) |->
             [giver |-> pairs[i].giver,
              actions |-> <<[receiver |-> pairs[i].receiver,
                             action |-> pairs[i].action]>>]]

\* _execute_pairs: parallel.enabled and parallel.max_workers > 1
runs_parallel == parallel.enabled /\ parallel.max_workers > 1

\* the mutant of _block_unauthorized_account: nothing is written
block_unauthorized_account_none(unauthorized, name, id) == unauthorized

\* AccountManager._block_unauthorized_account
block_unauthorized_account(unauthorized, name, id) ==
    IF is_account_unauthorized(unauthorized, name, id) THEN unauthorized
    ELSE DictSet(unauthorized, name, BlockRecord(name, id, "unauthorized"))

\* AccountManager._block_channel_account
block_channel_account(blocked, name, id) ==
    IF is_account_channel_blocked(blocked, name, id) THEN blocked
    ELSE DictSet(blocked, name, BlockRecord(name, id, "no channel access"))

\* AccountManager.block_account(name, id, reason, block_type): the two lists
\* after the call
block_account(unauthorized, blocked, enabled, name, id, block_type) ==
    IF ~enabled
    THEN [unauthorized |-> unauthorized, blocked |-> blocked]
    ELSE IF block_type = "unauthorized"
    THEN [unauthorized |-> block_unauthorized_account(unauthorized, name, id),
          blocked |-> blocked]
    ELSE [unauthorized |-> unauthorized,
          blocked |-> block_channel_account(blocked, name, id)]

\* ShutdownHandler.register_profile(profile)
register_profile(profiles, profile) ==
    IF profile /= NoId /\ ~Contains(profiles, profile)
    THEN Append(profiles, profile) ELSE profiles

\* list.remove(profile): the first occurrence goes
RemoveFirst(profiles, profile) ==
    LET at == CHOOSE i \in 1..Len(profiles) :
                  profiles[i] = profile /\ \A j \in 1..(i - 1) : profiles[j] /= profile
    IN SubSeq(profiles, 1, at - 1) \o SubSeq(profiles, at + 1, Len(profiles))

\* ShutdownHandler.unregister_profile(profile)
unregister_profile(profiles, profile) ==
    IF Contains(profiles, profile) THEN RemoveFirst(profiles, profile) ELSE profiles

\* a launch failure that records nothing
record_none_failed(accts, stats, g, actions, day, t) ==
    [accounts |-> accts, daily_stats |-> stats]

\* execute_giver_batch: for act in actions: record_action(giver, receiver, action, False)
RECURSIVE record_all_failed(_, _, _, _, _, _)
record_all_failed(accts, stats, g, actions, day, t) ==
    IF actions = <<>> THEN [accounts |-> accts, daily_stats |-> stats]
    ELSE LET res == record_action(accts, stats, g, Head(actions).receiver.name,
                                  Head(actions).action, FALSE, day, t)
         IN record_all_failed(res.accounts, res.daily_stats, g, Tail(actions), day, t)

\* a loop that begins the next action whoever its receiver is
next_action_unchecked(actions, k, unauthorized, blocked) == k

\* execute_giver_batch: the index of the first action from k on whose receiver
\* is not blocked (the `continue` of the loop), Len(actions) + 1 if none
RECURSIVE next_action(_, _, _, _)
next_action(actions, k, unauthorized, blocked) ==
    IF k > Len(actions) THEN k
    ELSE IF is_account_blocked(unauthorized, blocked, actions[k].receiver.name,
                               actions[k].receiver.adspower_id)
    THEN next_action(actions, k + 1, unauthorized, blocked)
    ELSE k

\* a loop head that does not look at is_shutting_down
loop_head_unflagged(s, actions, k, flag, unauthorized, blocked) ==
    LET n == next_action(actions, k, unauthorized, blocked)
    IN IF n > Len(actions)
       THEN [s EXCEPT !.pc = "stopping", !.k = n, !.stops = @ + 1]
       ELSE [s EXCEPT !.pc = "acting", !.k = n]

\* execute_giver_batch: the head of the for loop, up to the next await: the
\* call of _execute_discord_action, or the stop request of the finally block
loop_head(s, actions, k, flag, unauthorized, blocked) ==
    LET n == next_action(actions, k, unauthorized, blocked)
    IN IF flag \/ n > Len(actions)
       THEN [s EXCEPT !.pc = "stopping", !.k = IF flag THEN k ELSE n,
                      !.stops = @ + 1]
       ELSE [s EXCEPT !.pc = "acting", !.k = n]

\* a cleanup that does not look at the flag
never_shutting_down(flag) == FALSE

\* ShutdownHandler.cleanup: if self.is_shutting_down: return
already_shutting_down(flag) == flag

NewSession ==
    [pc |-> "pending", k |-> 1, completed |-> 0, failed |-> 0,
     browser |-> "none", registered |-> FALSE, stops |-> 0,
     outcomes |-> <<>>, executed |-> <<>>, error |-> FALSE]

Finished(s) == s.pc \in {"done", "skipped"}

Outcomes == {"ok", "failed", "unauthorized", "no_access"}

\* the plans executed: two givers, the first with two actions
RunPlan ==
    <<[giver |-> Account("A"), receiver |-> Account("B"), action |-> "bless"],
      [giver |-> Account("B"), receiver |-> Account("A"), action |-> "curse"],
      [giver |-> Account("A"), receiver |-> Account("C"), action |-> "curse"]>>

BatchChoices ==
    {[enabled |-> TRUE, max_actions_per_session |-> 0],
     [enabled |-> TRUE, max_actions_per_session |-> 1],
     [enabled |-> FALSE, max_actions_per_session |-> 0]}

\* the cap of ParallelConfig.from_dict: min(max_workers, 5)
MaxWorkersCap == 5

\* a from_dict that takes max_workers as the configuration gives it
ParallelConfig_from_dict_uncapped(data) ==
    LET enabled == DictGet(data, "enabled", FALSE)
    IN [enabled |-> enabled,
        max_workers |-> DictGet(data, "max_workers", IF enabled THEN 2 ELSE 1)]

\* ParallelConfig.from_dict(data)
ParallelConfig_from_dict(data) ==
    LET enabled == DictGet(data, "enabled", FALSE)
        max_workers == DictGet(data, "max_workers", IF enabled THEN 2 ELSE 1)
    IN [enabled |-> enabled, max_workers |-> Min(max_workers, MaxWorkersCap)]

\* the "parallel" section of config.json: absent, enabled only, enabled with
\* a number of workers, or disabled with a number above the cap
ParallelData ==
    {EmptyDict, [enabled |-> TRUE],
     [enabled |-> FALSE, max_workers |-> MaxRawWorkers]}
        \cup {[enabled |-> TRUE, max_workers |-> w] : w \in 1..MaxWorkers}

\* load_parallel_config
ParallelChoices == {ParallelConfig_from_dict(data) : data \in ParallelData}

InitRun ==
    /\ InitStore
    /\ unauthorized_accounts = EmptyDict
    /\ blocked_accounts = EmptyDict
    /\ block_accounts_enabled \in BOOLEAN
    /\ roster = FullRoster
    /\ max_actions = 0
    /\ plan = RunPlan
    /\ planInfo = NoPlan
    /\ \E batch_mode \in BatchChoices : groups = make_groups(plan, batch_mode)
    /\ parallel \in ParallelChoices
    /\ sessions = [i \in 1..Len(groups) |-> NewSession]
    /\ active_profiles = <<>>
    /\ is_shutting_down = FALSE
    /\ totals = [completed |-> 0, failed |-> 0]
    /\ cleanup = [pc |-> "idle", todo |-> <<>>, calls |-> 0, loops |-> 0,
                  closes |-> 0, stops |-> <<>>]

\* the worker holds the semaphore of _execute_parallel
Holding(s) == s.pc \notin {"pending", "done", "skipped"}

\* the session's turn: the for loop of _execute_sequential reaches it, or the
\* semaphore of _execute_parallel admits its worker
Turn(i) ==
    /\ sessions[i].pc = "pending"
    /\ \A j \in 1..(i - 1) : sessions[j].pc /= "pending"
    /\ IF runs_parallel
       THEN Cardinality({j \in 1..Len(sessions) : Holding(sessions[j])})
                < parallel.max_workers
       ELSE \A j \in 1..(i - 1) : Finished(sessions[j])

\* _execute_sequential: `if shutdown_handler.is_shutting_down: break`;
\* worker of _execute_parallel: `if shutdown_handler.is_shutting_down: return`
SkipSession(i) ==
    /\ Turn(i)
    /\ is_shutting_down
    /\ sessions' = [j \in 1..Len(sessions) |->
                       IF j = i \/ (~runs_parallel /\ j > i)
                       THEN [sessions[j] EXCEPT !.pc = "skipped"]
                       ELSE sessions[j]]
    /\ UNCHANGED <<storeVars, histVars, mgrVars, planVars, groups, parallel,
                   active_profiles, is_shutting_down, totals, cleanup>>

\* execute_giver_batch up to `await adspower.start_browser(...)`
BeginSession(i) ==
    /\ Turn(i)
    /\ ~is_shutting_down
    /\ sessions' =
          [sessions EXCEPT ![i].pc =
              IF is_account_blocked(unauthorized_accounts, blocked_accounts,
                                    groups[i].giver.name, groups[i].giver.adspower_id)
              THEN "done" ELSE "starting"]
    /\ UNCHANGED <<storeVars, histVars, mgrVars, planVars, groups, parallel,
                   active_profiles, is_shutting_down, totals, cleanup>>

\* execute_giver_batch: start_browser returned None
StartFails(i, t) ==
    LET actions == groups[i].actions
        res == record_all_failed(accounts, daily_stats, groups[i].giver.name,
                                 actions, today, t)
    IN /\ sessions[i].pc = "starting"
       /\ sessions' = [sessions EXCEPT ![i].pc = "done", ![i].browser = "failed",
                                       ![i].failed = Len(actions)]
       /\ totals' = [totals EXCEPT !.failed = @ + Len(actions)]
       /\ accounts' = res.accounts
       /\ daily_stats' = res.daily_stats
       /\ state_file' = IF actions = <<>> THEN state_file
                        ELSE save_state_doc(accounts', daily_stats', settings, today)
       /\ dirty' = IF actions = <<>> THEN dirty ELSE FALSE
       /\ UNCHANGED <<settings, today, histVars, mgrVars, planVars, groups, parallel,
                      active_profiles, is_shutting_down, cleanup>>

\* execute_giver_batch: start_browser returned the browser, up to the sleep
StartSucceeds(i) ==
    /\ sessions[i].pc = "starting"
    /\ active_profiles' = register_profile(active_profiles, groups[i].giver.adspower_id)
    /\ sessions' = [sessions EXCEPT ![i].pc = "sleeping", ![i].browser = "started",
                                    ![i].registered = TRUE]
    /\ UNCHANGED <<storeVars, histVars, mgrVars, planVars, groups, parallel,
                   is_shutting_down, totals, cleanup>>

\* execute_giver_batch: a sleep ends (initialisation, pause between commands)
Wake(i) ==
    /\ sessions[i].pc = "sleeping"
    /\ sessions' = [sessions EXCEPT ![i] =
                       loop_head(@, groups[i].actions, @.k, is_shutting_down,
                                 unauthorized_accounts, blocked_accounts)]
    /\ UNCHANGED <<storeVars, histVars, mgrVars, planVars, groups, parallel,
                   active_profiles, is_shutting_down, totals, cleanup>>

\* a choice of the block that takes every failure for an access failure
block_type_of_any_failure(outcome) ==
    IF outcome = "unauthorized" THEN "unauthorized"
    ELSE IF outcome = "ok" THEN "none"
    ELSE "channel"

\* _execute_discord_action: the block_type of the block_account call made on
\* the way to the outcome, "none" when no call is made
block_type_of(outcome) ==
    IF outcome = "unauthorized" THEN "unauthorized"
    ELSE IF outcome = "no_access" THEN "channel"
    ELSE "none"

\* _execute_discord_action returns; execute_giver_batch counts and records the
\* outcome and goes on to the pause, the next action or the finally block
ActionReturns(i, outcome, t) ==
    LET s == sessions[i]
        giver == groups[i].giver
        actions == groups[i].actions
        act == actions[s.k]
        success == (outcome = "ok")
        lists == IF block_type_of(outcome) /= "none"
                 THEN block_account(unauthorized_accounts, blocked_accounts,
                                    block_accounts_enabled, giver.name,
                                    giver.adspower_id, block_type_of(outcome))
                 ELSE [unauthorized |-> unauthorized_accounts,
                       blocked |-> blocked_accounts]
        unauthorized == lists.unauthorized
        blocked == lists.blocked
        res == record_action(accounts, daily_stats, giver.name, act.receiver.name,
                             act.action, success, today, t)
        counted == [s EXCEPT !.completed = IF success THEN @ + 1 ELSE @,
                             !.failed = IF success THEN @ ELSE @ + 1,
                             !.outcomes = Append(@, outcome),
                             !.executed = Append(@, s.k)]
    IN /\ s.pc = "acting"
       /\ sessions' = [sessions EXCEPT ![i] =
              IF s.k < Len(actions) /\ ~is_shutting_down
              THEN [counted EXCEPT !.pc = "sleeping", !.k = s.k + 1]
              ELSE loop_head(counted, actions, s.k + 1, is_shutting_down,
                             unauthorized, blocked)]
       /\ unauthorized_accounts' = unauthorized
       /\ blocked_accounts' = blocked
       /\ accounts' = res.accounts
       /\ daily_stats' = res.daily_stats
       /\ state_file' = save_state_doc(accounts', daily_stats', settings, today)
       /\ dirty' = FALSE
       /\ UNCHANGED <<settings, today, histVars, planVars, groups, parallel,
                      active_profiles, is_shutting_down, totals, cleanup,
                      block_accounts_enabled>>

\* execute_giver_batch: an iteration of the for loop raises before its outcome
\* is counted; the finally block requests the stop of the profile
ActionRaises(i) ==
    /\ sessions[i].pc = "acting"
    /\ sessions' = [sessions EXCEPT ![i].pc = "stopping", ![i].stops = @ + 1,
                                    ![i].error = TRUE]
    /\ UNCHANGED <<storeVars, histVars, mgrVars, planVars, groups, parallel,
                   active_profiles, is_shutting_down, totals, cleanup>>

\* totals that count every action the session did not complete as failed
session_totals_planned(tot, s, actions, in_parallel) ==
    [completed |-> tot.completed + s.completed,
     failed |-> tot.failed + (Len(actions) - s.completed)]

\* worker of _execute_parallel, loop of _execute_sequential: the totals after
\* the batch of session s returned (completed, failed) or raised
session_totals(tot, s, actions, in_parallel) ==
    IF ~s.error
    THEN [completed |-> tot.completed + s.completed,
          failed |-> tot.failed + s.failed]
    ELSE IF in_parallel THEN [tot EXCEPT !.failed = @ + Len(actions)]
    ELSE tot

\* execute_giver_batch: stop_browser_async of the finally block returns or
\* raises; the batch returns (completed, failed), or the exception of the loop
\* goes on: to the `except Exception` of the worker, or through
\* _execute_sequential to main_async, which leaves the later sessions unrun
StopReturns(i, raised) ==
    /\ sessions[i].pc = "stopping"
    /\ sessions' = [j \in 1..Len(sessions) |->
                       IF j = i THEN [sessions[j] EXCEPT !.pc = "done"]
                       ELSE IF sessions[i].error /\ ~runs_parallel /\ j > i
                       THEN [sessions[j] EXCEPT !.pc = "skipped"]
                       ELSE sessions[j]]
    /\ active_profiles' = IF raised THEN active_profiles
                          ELSE unregister_profile(active_profiles,
                                                  groups[i].giver.adspower_id)
    /\ totals' = session_totals(totals, sessions[i], groups[i].actions,
                                runs_parallel)
    /\ UNCHANGED <<storeVars, histVars, mgrVars, planVars, groups, parallel,
                   is_shutting_down, cleanup>>

\* handle_sigint
Sigint ==
    /\ ~is_shutting_down
    /\ is_shutting_down' = TRUE
    /\ UNCHANGED <<storeVars, histVars, mgrVars, planVars, groups, parallel,
                   sessions, active_profiles, totals, cleanup>>

\* run_session has returned: main_async is in its finally block
RunOver == \A i \in 1..Len(sessions) : Finished(sessions[i])

\* ShutdownHandler.cleanup() up to its first await
Cleanup ==
    /\ RunOver
    /\ cleanup.pc = "idle"
    /\ cleanup.calls < MaxCleanupCalls
    /\ IF already_shutting_down(is_shutting_down)
       THEN /\ cleanup' = [cleanup EXCEPT !.calls = @ + 1, !.stops = Append(@, 0)]
            /\ UNCHANGED is_shutting_down
       ELSE /\ is_shutting_down' = TRUE
            /\ cleanup' =
                  IF active_profiles = <<>>
                  THEN [cleanup EXCEPT !.calls = @ + 1, !.stops = Append(@, 0)]
                  ELSE [cleanup EXCEPT !.calls = @ + 1, !.stops = Append(@, 1),
                                       !.loops = @ + 1, !.pc = "stopping",
                                       !.todo = active_profiles]
    /\ UNCHANGED <<storeVars, histVars, mgrVars, planVars, groups, parallel,
                   sessions, active_profiles, totals>>

\* ShutdownHandler.cleanup: stop_browser_async of the loop returns or raises;
\* the loop goes on to the next profile of the copy, or to adspower.close()
CleanupStopReturns(raised) ==
    LET profile == Head(cleanup.todo)
        rest == Tail(cleanup.todo)
    IN /\ cleanup.pc = "stopping"
       /\ active_profiles' = IF raised \/ ~Contains(active_profiles, profile)
                             THEN active_profiles
                             ELSE RemoveFirst(active_profiles, profile)
       /\ cleanup' =
             IF rest = <<>>
             THEN [cleanup EXCEPT !.pc = "closing", !.todo = rest, !.closes = @ + 1]
             ELSE [cleanup EXCEPT !.todo = rest, !.stops[cleanup.calls] = @ + 1]
       /\ UNCHANGED <<storeVars, histVars, mgrVars, planVars, groups, parallel,
                      sessions, is_shutting_down, totals>>

\* ShutdownHandler.cleanup: adspower.close() returns
CleanupCloseReturns ==
    /\ cleanup.pc = "closing"
    /\ cleanup' = [cleanup EXCEPT !.pc = "idle"]
    /\ UNCHANGED <<storeVars, histVars, mgrVars, planVars, groups, parallel,
                   sessions, active_profiles, is_shutting_down, totals>>

NextRun ==
    \/ \E i \in 1..Len(sessions) : SkipSession(i)
    \/ \E i \in 1..Len(sessions) : BeginSession(i)
    \/ \E i \in 1..Len(sessions), t \in Times : StartFails(i, t)
    \/ \E i \in 1..Len(sessions) : StartSucceeds(i)
    \/ \E i \in 1..Len(sessions) : Wake(i)
    \/ \E i \in 1..Len(sessions), outcome \in Outcomes, t \in Times :
          ActionReturns(i, outcome, t)
    \/ \E i \in 1..Len(sessions) : ActionRaises(i)
    \/ \E i \in 1..Len(sessions), raised \in BOOLEAN : StopReturns(i, raised)
    \/ Sigint
    \/ Cleanup
    \/ \E raised \in BOOLEAN : CleanupStopReturns(raised)
    \/ CleanupCloseReturns

SpecRun == InitRun /\ [][NextRun]_vars

\* the steps of session i: its coroutine is resumed when the call it awaits
\* (start_browser, asyncio.sleep, _execute_discord_action, stop_browser_async)
\* has returned
SessionStep(i) ==
    \/ SkipSession(i)
    \/ BeginSession(i)
    \/ \E t \in Times : StartFails(i, t)
    \/ StartSucceeds(i)
    \/ Wake(i)
    \/ \E outcome \in Outcomes, t \in Times : ActionReturns(i, outcome, t)
    \/ ActionRaises(i)
    \/ \E raised \in BOOLEAN : StopReturns(i, raised)

\* run_session up to its return: the sessions and the signal, before the
\* finally block of main_async
NextSessions ==
    \/ \E i \in 1..Len(sessions) : SessionStep(i)
    \/ Sigint

\* a run under the default of AccountManager: account_blocking.enabled is True
InitRunDefault ==
    /\ InitRun
    /\ block_accounts_enabled

\* the event loop of asyncio.run resumes a coroutine that is ready, and the
\* awaited calls return: the requests of AdsPowerAPI and the waits of the page
\* carry timeouts
SpecRunFair ==
    /\ InitRunDefault
    /\ [][NextSessions]_vars
    /\ WF_vars(\E i \in 1..Len(sessions) : SessionStep(i))

----------------------------------------------------------------------------
\* AccountManager: blocking and unblocking over several runs

\* the block_type argument of unblock_account: None (both lists) or one list
NoType == "None"
UnblockTypes == {NoType, "channel", "unauthorized"}

\* del d[name]
DictDel(d, name) == [k \in DOMAIN d \ {name} |-> d[k]]

\* AccountManager.unblock_account(account_name, block_type): the two lists
\* after the call and the value returned
unblock_account(unauthorized, blocked, name, block_type) ==
    LET in_channel == block_type \in {NoType, "channel"} /\ name \in DOMAIN blocked
        in_unauthorized == block_type \in {NoType, "unauthorized"}
                              /\ name \in DOMAIN unauthorized
    IN [unauthorized |-> IF in_unauthorized THEN DictDel(unauthorized, name)
                         ELSE unauthorized,
        blocked |-> IF in_channel THEN DictDel(blocked, name) ELSE blocked,
        unblocked |-> in_channel \/ in_unauthorized]

\* AccountManager.filter_blocked_accounts(accounts)
filter_blocked_accounts(accs, unauthorized, blocked) ==
    SelectSeq(accs, LAMBDA acc :
        ~is_account_blocked(unauthorized, blocked, acc.name, acc.adspower_id))

\* the block lists as _load_blocked_accounts and _load_unauthorized_accounts
\* find them, and the accounts of the configuration
InitBlock ==
    /\ InitStore
    /\ unauthorized_accounts \in UnauthorizedChoices
    /\ blocked_accounts \in BlockedChoices
    /\ block_accounts_enabled \in BOOLEAN
    /\ roster = FullRoster
    /\ max_actions = 0
    /\ plan = <<>>
    /\ planInfo = NoPlan
    /\ InitIdleRun

\* a session calls block_account for one of the accounts
BlockAccount(name, block_type) ==
    LET lists == block_account(unauthorized_accounts, blocked_accounts,
                               block_accounts_enabled, name, ProfileOf[name],
                               block_type)
    IN /\ unauthorized_accounts' = lists.unauthorized
       /\ blocked_accounts' = lists.blocked
       /\ lastOp' = "block"
       /\ lastCall' = [giver |-> name, receiver |-> "", action |-> block_type,
                       success |-> TRUE]
       /\ UNCHANGED <<storeVars, nCalls, preCall, block_accounts_enabled,
                      planVars, runVars>>

\* unblock_account(name, block_type) is called
UnblockAccount(name, block_type) ==
    LET res == unblock_account(unauthorized_accounts, blocked_accounts, name,
                               block_type)
    IN /\ unauthorized_accounts' = res.unauthorized
       /\ blocked_accounts' = res.blocked
       /\ lastOp' = "unblock"
       /\ lastCall' = [giver |-> name, receiver |-> "", action |-> block_type,
                       success |-> res.unblocked]
       /\ UNCHANGED <<storeVars, nCalls, preCall, block_accounts_enabled,
                      planVars, runVars>>

\* run_session: the accounts of the configuration that go into the planning
FilterBlockedAccounts ==
    /\ roster' = filter_blocked_accounts(FullRoster, unauthorized_accounts,
                                         blocked_accounts)
    /\ lastOp' = "other"
    /\ lastCall' = NoCall
    /\ UNCHANGED <<storeVars, nCalls, preCall, mgrVars, max_actions, plan,
                   planInfo, runVars>>

NextBlock ==
    \/ \E name \in PlanNames, block_type \in {"channel", "unauthorized"} :
          BlockAccount(name, block_type)
    \/ \E name \in PlanNames, block_type \in UnblockTypes :
          UnblockAccount(name, block_type)
    \/ FilterBlockedAccounts

SpecBlock == InitBlock /\ [][NextBlock]_vars

----------------------------------------------------------------------------
\* main.py: the pair generator of the chain mode

\* the pairs account i of the chain gives to its successor
chain_pairs_of(accs, i, both_actions, unauthorized, blocked) ==
    LET account == accs[i]
        target == accs[(i % Len(accs)) + 1]
    IN IF \/ is_account_blocked(unauthorized, blocked, account.name,
                                account.adspower_id)
          \/ is_account_blocked(unauthorized, blocked, target.name,
                                target.adspower_id)
       THEN <<>>
       ELSE IF both_actions
       THEN <<[giver |-> account, receiver |-> target, action |-> "bless"],
              [giver |-> account, receiver |-> target, action |-> "curse"]>>
       ELSE <<[giver |-> account, receiver |-> target,
               action |-> IF (i - 1) % 2 = 0 THEN "bless" ELSE "curse"]>>

RECURSIVE chain_pairs_from(_, _, _, _, _)
chain_pairs_from(accs, i, both_actions, unauthorized, blocked) ==
    IF i > Len(accs) THEN <<>>
    ELSE chain_pairs_of(accs, i, both_actions, unauthorized, blocked)
            \o chain_pairs_from(accs, i + 1, both_actions, unauthorized, blocked)

\* a chain in which every account gives one action only
generate_chain_pairs_single(accs, both_actions, unauthorized, blocked) ==
    IF Len(accs) < 2 THEN <<>>
    ELSE chain_pairs_from(accs, 1, FALSE, unauthorized, blocked)

\* generate_chain_pairs(accounts, both_actions, account_mgr)
generate_chain_pairs(accs, both_actions, unauthorized, blocked) ==
    IF Len(accs) < 2 THEN <<>>
    ELSE chain_pairs_from(accs, 1, both_actions, unauthorized, blocked)

\* the longest list of accounts given to the generator
MaxChain == 3

\* the lists of accounts of a configuration, a name repeated or not
ChainRosters ==
    UNION {[1..n -> {Account(a) : a \in PlanNames}] : n \in 0..MaxChain}

InitChain ==
    /\ InitStore
    /\ unauthorized_accounts \in UnauthorizedChoices
    /\ blocked_accounts \in BlockedChoices
    /\ block_accounts_enabled = TRUE
    /\ roster \in ChainRosters
    /\ max_actions = 0
    /\ plan = <<>>
    /\ planInfo = NoPlan
    /\ InitIdleRun

\* _generate_pairs_for_mode with mode "chain"
GenerateChainPairs(both_actions) ==
    /\ ~planInfo.planned
    /\ plan' = generate_chain_pairs(roster, both_actions, unauthorized_accounts,
                                    blocked_accounts)
    /\ planInfo' = [planned |-> TRUE, both_actions |-> both_actions]
    /\ UNCHANGED <<storeVars, histVars, mgrVars, roster, max_actions, runVars>>

\* the greatest max_actions_per_session of the batch modes tried
MaxBatch == 2

\* the "batch_mode" section of config.json
BatchModes ==
    {[enabled |-> e, max_actions_per_session |-> m] :
        e \in BOOLEAN, m \in 0..MaxBatch}

\* _execute_pairs up to the choice between parallel and sequential: the
\* sessions made of the plan
MakeGroups(batch_mode) ==
    /\ planInfo.planned
    /\ "batch_mode" \notin DOMAIN planInfo
    /\ groups' = make_groups(plan, batch_mode)
    /\ planInfo' = [planned |-> TRUE, both_actions |-> planInfo.both_actions,
                    batch_mode |-> batch_mode]
    /\ UNCHANGED <<storeVars, histVars, mgrVars, roster, max_actions, plan,
                   parallel, sessions, active_profiles, is_shutting_down,
                   totals, cleanup>>

NextChain ==
    \/ \E both_actions \in BOOLEAN : GenerateChainPairs(both_actions)
    \/ \E batch_mode \in BatchModes : MakeGroups(batch_mode)

SpecChain == InitChain /\ [][NextChain]_vars

----------------------------------------------------------------------------
\* Claims on get_optimal_pairs (SpecPlan)

\* the account has a record in one of the two block lists, under its name or
\* under its profile identifier
InBlockList(acc) ==
    \/ \E k \in DOMAIN unauthorized_accounts :
          k = acc.name \/ unauthorized_accounts[k].adspower_id = acc.adspower_id
    \/ \E k \in DOMAIN blocked_accounts :
          k = acc.name \/ blocked_accounts[k].adspower_id = acc.adspower_id

GiverNames == {planInfo.givers[i].name : i \in 1..Len(planInfo.givers)}

UsageOf(name) == Cardinality({i \in 1..Len(plan) : plan[i].giver.name = name})

\* C2: no item of the returned plan has its giver's name equal to its
\* receiver's name, and a roster with at most one account outside the block
\* lists yields the empty plan.
C2_NoSelfPair ==
    planInfo.planned =>
        /\ \A i \in 1..Len(plan) : plan[i].giver.name /= plan[i].receiver.name
        /\ Cardinality({i \in 1..Len(roster) : ~InBlockList(roster[i])}) <= 1
              => plan = <<>>

\* a plan in which a receiver is itself an available giver
C2_Witness ==
    /\ planInfo.planned
    /\ Len(plan) >= 2
    /\ \E i \in 1..Len(plan) : plan[i].receiver.name \in GiverNames
    /\ \A i \in 1..Len(plan) : plan[i].giver.name /= plan[i].receiver.name

\* C3: the returned plan has at most max_actions items (max_actions >= 0).
C3_AtMostMaxActions ==
    planInfo.planned => Len(plan) <= max_actions

\* a plan cut to max_actions out of a longer queue
C3_Witness ==
    /\ planInfo.planned
    /\ max_actions > 0
    /\ planInfo.needed > max_actions
    /\ Len(plan) = max_actions

\* C4: no item of the returned plan has, as giver or as receiver, an account
\* with a record in the unauthorized list or in the channel list, matched by
\* name or by profile identifier.
C4_NoBlockedInPlan ==
    planInfo.planned =>
        \A i \in 1..Len(plan) :
            ~InBlockList(plan[i].giver) /\ ~InBlockList(plan[i].receiver)

\* a non-empty plan over a roster with an account blocked through its profile
\* identifier only and an account blocked by name
C4_Witness ==
    /\ planInfo.planned
    /\ plan /= <<>>
    /\ \E i \in 1..Len(roster) :
          /\ InBlockList(roster[i])
          /\ roster[i].name \notin DOMAIN blocked_accounts
          /\ roster[i].name \notin DOMAIN unauthorized_accounts
    /\ \A i \in 1..Len(plan) :
          ~InBlockList(plan[i].giver) /\ ~InBlockList(plan[i].receiver)

\* C5: when the available givers have equal remaining_today and the truncated
\* queue holds at least 2 x (number of givers) items, the numbers of plan
\* items of any two givers differ by at most 1.
C5_Fairness ==
    (/\ planInfo.planned
     /\ planInfo.givers /= <<>>
     /\ \A i, j \in 1..Len(planInfo.givers) :
           planInfo.givers[i].remaining_today = planInfo.givers[j].remaining_today
     /\ planInfo.queue_len >= 2 * Len(planInfo.givers))
    => \A g1, g2 \in GiverNames : UsageOf(g1) - UsageOf(g2) <= 1


----------------------------------------------------------------------------
\* Claims on the StateManager (SpecStore)

WithinDailyLimit ==
    \A n \in DOMAIN accounts :
        total_given_today(accounts[n]) <= settings.daily_limit_per_account

\* C1: a record_action call made on one day from a state in which every
\* account's given-today total is at most daily_limit_per_account leaves every
\* account with bless_given_today + curse_given_today <= daily_limit_per_account.
C1_DailyLimitKept ==
    [][(nCalls' = nCalls + 1 /\ WithinDailyLimit) => WithinDailyLimit']_vars

Stale(p, day) == p.last_action_date /= NoDate /\ p.last_action_date < day

\* C6: after a load, every account persisted with a last_action_date earlier
\* than today has both given-today counters at 0 and its received counters as
\* persisted; an account persisted with last_action_date = today keeps its
\* given-today counters.
C6_DayRollover ==
    lastOp = "load" =>
        \A n \in DOMAIN state_file.doc.accounts :
            LET p == state_file.doc.accounts[n]
            IN /\ n \in DOMAIN accounts
               /\ Stale(p, today) =>
                     /\ accounts[n].bless_given_today = 0
                     /\ accounts[n].curse_given_today = 0
                     /\ accounts[n].bless_received = p.bless_received
                     /\ accounts[n].curse_received = p.curse_received
               /\ p.last_action_date = today =>
                     /\ accounts[n].bless_given_today = p.bless_given_today
                     /\ accounts[n].curse_given_today = p.curse_given_today

\* a load on a new day that reset the non-zero counters of an account
C6_Witness ==
    /\ lastOp = "load"
    /\ \E n \in DOMAIN state_file.doc.accounts :
          LET p == state_file.doc.accounts[n]
          IN /\ Stale(p, today)
             /\ p.bless_given_today + p.curse_given_today > 0
             /\ p.bless_received + p.curse_received > 0
             /\ total_given_today(accounts[n]) = 0

\* the state a new process would load, on the same day, from a save of the
\* current in-memory state
Reloaded == load_state_doc(save_state_doc(accounts, daily_stats, settings, today), today)

\* C7 as stated: saving any reachable state and loading it again on the same
\* day yields identical per-account counters, DailyStats and Settings.
C7_RoundTrip ==
    /\ Reloaded.accounts = accounts
    /\ Reloaded.daily_stats = daily_stats
    /\ Reloaded.settings = settings

\* C7 as amended: the round trip reproduces Settings, DailyStats, the received
\* counters and last_action_date/time of every account, and the given-today
\* counters of every account whose last_action_date is empty or today; the
\* given-today counters of an account whose last_action_date is an earlier day
\* come back as 0.
C7_RoundTripAmended ==
    /\ Reloaded.settings = settings
    /\ Reloaded.daily_stats = daily_stats
    /\ DOMAIN Reloaded.accounts = DOMAIN accounts
    /\ \A n \in DOMAIN accounts :
          LET p == accounts[n]
              q == Reloaded.accounts[n]
          IN /\ q.bless_received = p.bless_received
             /\ q.curse_received = p.curse_received
             /\ q.last_action_date = p.last_action_date
             /\ q.last_action_time = p.last_action_time
             /\ ~Stale(p, today) =>
                   /\ q.bless_given_today = p.bless_given_today
                   /\ q.curse_given_today = p.curse_given_today
             /\ Stale(p, today) =>
                   /\ q.bless_given_today = 0
                   /\ q.curse_given_today = 0

\* a state loaded by a new process from the write-through save of a recorded
\* action, with non-zero counters that came back
C7_Witness ==
    /\ lastOp = "load"
    /\ state_file.doc.last_updated = today
    /\ \E n \in DOMAIN accounts :
          /\ accounts[n].bless_given_today > 0
          /\ accounts[n].last_action_time /= NoTime
    /\ \E n \in DOMAIN accounts : accounts[n].curse_received > 0
    /\ C7_RoundTrip

\* C8: record_action has no deduplication: after two record_action(g, r, kind,
\* TRUE) calls in a row with the same arguments, g's given-today counter of
\* that kind and r's received counter of that kind are 2 above, and today's
\* log is 2 entries longer than, what they were before the first of the two.
C8_NotIdempotent ==
    (lastOp = "record" /\ preCall.repeated /\ lastCall.success) =>
        /\ GivenOf(accounts, lastCall.giver, lastCall.action) = preCall.twin.given + 2
        /\ ReceivedOf(accounts, lastCall.receiver, lastCall.action)
              = preCall.twin.received + 2
        /\ LogLen(daily_stats, today) = preCall.twin.loglen + 2

\* the same successful action recorded twice in a row
C8_Witness ==
    /\ lastOp = "record"
    /\ preCall.repeated
    /\ lastCall.success
    /\ nCalls >= 2
    /\ GivenOf(accounts, lastCall.giver, lastCall.action) = preCall.twin.given + 2
    /\ LogLen(daily_stats, today) = preCall.twin.loglen + 2

----------------------------------------------------------------------------
\* Claims on the execution of a plan (SpecRun)

\* the log of today holds a failed entry for the action
LoggedFailed(g, act) ==
    /\ today \in DOMAIN daily_stats
    /\ \E e \in 1..Len(daily_stats[today].actions) :
          LET entry == daily_stats[today].actions[e]
          IN /\ entry.giver = g
             /\ entry.receiver = act.receiver.name
             /\ entry.action = act.action
             /\ ~entry.success

\* C9: a session whose start_browser call failed returns (0, number of its
\* queued actions), has each of its actions logged as failed in the
\* StateManager, never registered its profile with the ShutdownHandler and
\* issued no stop request.
C9_LaunchFailure ==
    \A i \in 1..Len(sessions) :
        sessions[i].browser = "failed" =>
            /\ sessions[i].pc = "done"
            /\ sessions[i].completed = 0
            /\ sessions[i].failed = Len(groups[i].actions)
            /\ \A k \in 1..Len(groups[i].actions) :
                  LoggedFailed(groups[i].giver.name, groups[i].actions[k])
            /\ ~sessions[i].registered
            /\ sessions[i].stops = 0

\* a session of two actions whose start failed, after the run and a cleanup
C9_Witness ==
    /\ \E i \in 1..Len(sessions) :
          /\ sessions[i].browser = "failed"
          /\ Len(groups[i].actions) = 2
          /\ sessions[i].failed = 2
          /\ ~Contains(active_profiles, groups[i].giver.adspower_id)
    /\ RunOver
    /\ cleanup.calls > 0

\* C10: over any sequence of cleanup() calls the stop loop is entered at most
\* once and adspower.close() is called by cleanup at most once; every call
\* after the first issues no stop request.
C10_CleanupIdempotent ==
    /\ cleanup.loops <= 1
    /\ cleanup.closes <= 1
    /\ \A c \in 2..Len(cleanup.stops) : cleanup.stops[c] = 0

\* two finished cleanup() calls, the first of which ran the stop loop and
\* left a profile in active_profiles
C10_Witness ==
    /\ cleanup.calls = 2
    /\ cleanup.pc = "idle"
    /\ cleanup.loops = 1
    /\ cleanup.closes = 1
    /\ cleanup.stops[1] >= 1
    /\ cleanup.stops[2] = 0
    /\ active_profiles /= <<>>

----------------------------------------------------------------------------
\* Claims on account blocking during a run (SpecRun)

\* the names under which the list holds a record of the giver: its name, or its
\* adspower_id
RecordsOf(list, giver) ==
    {k \in DOMAIN list : k = giver.name \/ list[k].adspower_id = giver.adspower_id}

\* the step in which an action of session i ends on a failed authorisation
\* check leaves exactly one unauthorized record of the giver: a new one when
\* there was none, and otherwise the list as it was
AuthFailureRecordsOnce(i, t) ==
    ActionReturns(i, "unauthorized", t) =>
        LET giver == groups[i].giver
        IN /\ Cardinality(RecordsOf(unauthorized_accounts', giver)) = 1
           /\ IF RecordsOf(unauthorized_accounts, giver) = {}
              THEN /\ DOMAIN unauthorized_accounts' =
                          DOMAIN unauthorized_accounts \cup {giver.name}
                   /\ \A k \in DOMAIN unauthorized_accounts :
                          unauthorized_accounts'[k] = unauthorized_accounts[k]
              ELSE unauthorized_accounts' = unauthorized_accounts

\* C11: an authentication failure during a giver's session results in exactly
\* one new record for that giver in the unauthorized list, and any later
\* authentication failure for the same account leaves the number of
\* unauthorized records unchanged.
C11_OneUnauthorizedRecord ==
    [][\A i \in 1..Len(groups), t \in Times : AuthFailureRecordsOnce(i, t)]_vars

\* C11 as the code has it: the same, when block_accounts_enabled is set (with
\* account_blocking.enabled false block_account writes no record at all)
C11_OneUnauthorizedRecordAmended ==
    [][\A i \in 1..Len(groups), t \in Times :
          block_accounts_enabled => AuthFailureRecordsOnce(i, t)]_vars

\* a session of two actions, both ended on a failed authorisation check, and
\* the one unauthorized record of its giver
C11_Witness ==
    \E i \in 1..Len(sessions) :
        /\ block_accounts_enabled
        /\ sessions[i].outcomes = <<"unauthorized", "unauthorized">>
        /\ Cardinality(RecordsOf(unauthorized_accounts, groups[i].giver)) = 1
        /\ Cardinality(DOMAIN unauthorized_accounts) = 1

----------------------------------------------------------------------------
\* Claims on the sessions of a run (SpecRun)

\* the session is between a successful start_browser and the return of its
\* stop_browser_async
Open(s) == s.pc \in {"sleeping", "acting", "stopping"}

\* C12: in sequential and in parallel mode, with batching on or off, no two
\* sessions of the same profile identifier are both between a successful
\* start and the completion of their stop.
C12_OneSessionPerProfile ==
    \A i, j \in 1..Len(sessions) :
        (i /= j /\ Open(sessions[i]) /\ Open(sessions[j]))
            => groups[i].giver.adspower_id /= groups[j].giver.adspower_id


\* no session has its start requested and no action is begun in the step
NothingBegins ==
    \A i \in 1..Len(sessions) :
        /\ sessions'[i].pc = "starting" => sessions[i].pc = "starting"
        /\ sessions'[i].pc = "acting" => sessions[i].pc = "acting"
        /\ sessions'[i].browser = "started" => sessions[i].pc /= "pending"

C14_CleanupAfterSignal ==
    [][(/\ is_shutting_down
        /\ cleanup.calls = 0
        /\ cleanup'.calls = 1
        /\ active_profiles /= <<>>)
          => /\ cleanup'.pc = "stopping"
             /\ cleanup'.todo = active_profiles
             /\ cleanup'.stops[1] >= 1]_vars


\* C15: a session whose start_browser succeeded has its profile in
\* active_profiles until its own stop_browser_async call has completed: the
\* profile is removed only after that call, however the call ended.
C15_RemovedAfterStop ==
    \A i \in 1..Len(sessions) :
        Open(sessions[i]) => Contains(active_profiles, groups[i].giver.adspower_id)


\* C16: an action that ended on a failed authorisation check or on a denied
\* access to the channel is the last action of its session: none of the
\* remaining actions of the session is attempted or recorded.
C16_FailureEndsSession ==
    \A i \in 1..Len(sessions) :
        \A k \in 1..Len(sessions[i].outcomes) :
            sessions[i].outcomes[k] \in {"unauthorized", "no_access"}
                => /\ k = Len(sessions[i].outcomes)
                   /\ sessions[i].pc \in {"stopping", "done"}

----------------------------------------------------------------------------
\* Claims on record_action (SpecStore)

\* total_bless or total_curse of the day's DailyStats
TotalOf(stats, day, kind) ==
    IF day \notin DOMAIN stats THEN 0
    ELSE IF kind = "bless" THEN stats[day].total_bless
    ELSE stats[day].total_curse

\* the step is a record_action call
RecordStep == nCalls' = nCalls + 1

\* the step appends one entry to today's log: the call, with its outcome
LogsTheCall ==
    /\ LogLen(daily_stats', today) = LogLen(daily_stats, today) + 1
    /\ LET entry == daily_stats'[today].actions[LogLen(daily_stats', today)]
       IN /\ entry.giver = lastCall'.giver
          /\ entry.receiver = lastCall'.receiver
          /\ entry.action = lastCall'.action
          /\ entry.success = lastCall'.success
    /\ \A e \in 1..LogLen(daily_stats, today) :
          daily_stats'[today].actions[e] = daily_stats[today].actions[e]

\* every counter but those of the set keeps its value in the step
OnlyChanged(given, received, totals_) ==
    /\ \A n \in DOMAIN accounts', kind \in Kinds :
          /\ <<n, kind>> \notin given
                => GivenOf(accounts', n, kind) = GivenOf(accounts, n, kind)
          /\ <<n, kind>> \notin received
                => ReceivedOf(accounts', n, kind) = ReceivedOf(accounts, n, kind)
    /\ \A kind \in Kinds \ totals_ :
          TotalOf(daily_stats', today, kind) = TotalOf(daily_stats, today, kind)

\* C17: record_action(g, r, kind, True) with kind bless or curse increases
\* g's given-today counter of that kind by 1, r's received counter of that
\* kind by 1 and today's total of that kind by 1, sets g's last_action_date
\* to today, appends one log entry, and leaves the counters of every other
\* account and of the other kind unchanged.
C17_SuccessfulRecord ==
    [][(RecordStep /\ lastCall'.success) =>
          LET g == lastCall'.giver
              r == lastCall'.receiver
              kind == lastCall'.action
          IN /\ GivenOf(accounts', g, kind) = GivenOf(accounts, g, kind) + 1
             /\ ReceivedOf(accounts', r, kind) = ReceivedOf(accounts, r, kind) + 1
             /\ TotalOf(daily_stats', today, kind)
                   = TotalOf(daily_stats, today, kind) + 1
             /\ accounts'[g].last_action_date = today
             /\ LogsTheCall
             /\ OnlyChanged({<<g, kind>>}, {<<r, kind>>}, {kind})]_vars

\* two successful calls of the same day, a bless and then a curse of the
\* same giver
C17_Witness ==
    /\ lastOp = "record"
    /\ lastCall.success
    /\ lastCall.action = "curse"
    /\ GivenOf(accounts, lastCall.giver, "bless") = 1
    /\ GivenOf(accounts, lastCall.giver, "curse") = 1
    /\ ReceivedOf(accounts, lastCall.receiver, "curse") = 1
    /\ TotalOf(daily_stats, today, "bless") = 1
    /\ TotalOf(daily_stats, today, "curse") = 1
    /\ LogLen(daily_stats, today) = 2

\* C18: record_action with success False leaves every given-today counter,
\* every received counter and the daily totals unchanged, sets the giver's
\* last_action_date and last_action_time and appends one log entry with
\* success False; no step other than a successful record_action increases a
\* given-today or a received counter.
C18_FailedRecord ==
    [][/\ (RecordStep /\ ~lastCall'.success) =>
             /\ OnlyChanged({}, {}, {})
             /\ accounts'[lastCall'.giver].last_action_date = today
             /\ accounts'[lastCall'.giver].last_action_time \in Times
             /\ LogsTheCall
       /\ (\E n \in DOMAIN accounts', kind \in Kinds :
              \/ GivenOf(accounts', n, kind) > GivenOf(accounts, n, kind)
              \/ ReceivedOf(accounts', n, kind) > ReceivedOf(accounts, n, kind))
             => (RecordStep /\ lastCall'.success)]_vars

\* a failed call after a successful one: the counters of the first call
\* stand, the log holds both
C18_Witness ==
    /\ lastOp = "record"
    /\ ~lastCall.success
    /\ LogLen(daily_stats, today) = 2
    /\ daily_stats[today].actions[1].success
    /\ ~daily_stats[today].actions[2].success
    /\ GivenOf(accounts, lastCall.giver, lastCall.action)
          + ReceivedOf(accounts, lastCall.receiver, lastCall.action) >= 1
    /\ TotalOf(daily_stats, today, "bless") + TotalOf(daily_stats, today, "curse") = 1

----------------------------------------------------------------------------
\* Claims on a damaged state file (SpecLoad)

\* C19: when the state file exists and cannot be read, the load fails and the
\* failure reaches the caller: the step that follows the failed load is no
\* record_action and no planning query, and it leaves the file as it is.
C19_FailedLoadSurfaced ==
    [][(lastOp = "load" /\ Damage(state_file) /= "none")
          => /\ ~RecordStep
             /\ planInfo'.planned => planInfo.planned
             /\ state_file' = state_file]_vars

----------------------------------------------------------------------------
\* Claims on the parallel mode (SpecRun)

\* the sessions between a successful start and the return of their stop
OpenSessions == {i \in 1..Len(sessions) : Open(sessions[i])}

\* C20: in parallel mode the number of sessions that are open at once never
\* exceeds parallel.max_workers, and the max_workers loaded from the
\* configuration never exceeds 5.
C20_BoundedParallel ==
    /\ parallel.max_workers <= MaxWorkersCap
    /\ runs_parallel => Cardinality(OpenSessions) <= parallel.max_workers

\* as many sessions open as there are workers, and a third waiting for the
\* semaphore
C20_Witness ==
    /\ runs_parallel
    /\ Cardinality(OpenSessions) = parallel.max_workers
    /\ \E i \in 1..Len(sessions) : sessions[i].pc = "pending"

----------------------------------------------------------------------------
\* Claims on a session that raises (SpecRun)

\* the worker of session i catches the exception of its session
WorkerCatches(i) ==
    /\ runs_parallel
    /\ sessions[i].pc = "stopping"
    /\ sessions[i].error
    /\ sessions'[i].pc = "done"

\* C21: in parallel mode, when the session of a worker raises, the worker
\* catches the exception, the total of failed actions grows by the number of
\* the worker's actions that were not yet executed, and the sessions of the
\* other workers are left as they are.
C21_RaisedSessionCounted ==
    [][\A i \in 1..Len(sessions) :
          WorkerCatches(i)
             => /\ totals'.failed = totals.failed
                       + (Len(groups[i].actions) - Len(sessions[i].outcomes))
                /\ \A j \in 1..Len(sessions) :
                      j /= i => sessions'[j] = sessions[j]]_vars

----------------------------------------------------------------------------
\* Claims on the block check at the start of a session (SpecRun)

\* a session of this run blocked the giver of session i: one of its actions
\* ended on an authorisation or an access failure while blocking is enabled
BlockedInRun(i) ==
    /\ block_accounts_enabled
    /\ \E j \in 1..Len(sessions) :
          /\ groups[j].giver = groups[i].giver
          /\ \E n \in 1..Len(sessions[j].outcomes) :
                sessions[j].outcomes[n] \in {"unauthorized", "no_access"}

\* session i leaves the queue and is not skipped for a shutdown or an error
Begins(i) ==
    /\ sessions[i].pc = "pending"
    /\ sessions'[i].pc \notin {"pending", "skipped"}

\* C22: a session whose giver is blocked when the session is about to start,
\* also by an earlier session of the same run, requests no profile start,
\* executes and records no action and returns (0, 0).
C22_BlockedGiverSkipped ==
    [][\A i \in 1..Len(sessions) :
          (Begins(i) /\ BlockedInRun(i))
             => /\ sessions'[i] = [NewSession EXCEPT !.pc = "done"]
                /\ UNCHANGED <<accounts, daily_stats, state_file, totals,
                               active_profiles>>]_vars

\* the second session of a giver ended without a start after the first one
\* blocked the giver
C22_Witness ==
    \E i \in 1..Len(sessions), j \in 1..Len(sessions) :
        /\ j < i
        /\ groups[j].giver = groups[i].giver
        /\ BlockedInRun(i)
        /\ sessions[j].pc = "done"
        /\ sessions[i] = [NewSession EXCEPT !.pc = "done"]

----------------------------------------------------------------------------
\* Claims on the durability of a record (SpecLoad)

\* C23: whenever record_action returns, the document on disk is the one of the
\* state in memory with the action just recorded, also when the write failed.
C23_WriteThrough ==
    [][RecordStep
          => state_file' = save_state_doc(accounts', daily_stats', settings',
                                          today')]_vars

----------------------------------------------------------------------------
\* Claims on failures that do not block (SpecRun)

\* the start of the profile of session i fails
LaunchFails(i) ==
    /\ sessions[i].pc = "starting"
    /\ sessions'[i].browser = "failed"

\* a command of session i fails after the channel was opened
CommandFails(i) ==
    /\ sessions[i].pc = "acting"
    /\ Len(sessions'[i].outcomes) = Len(sessions[i].outcomes) + 1
    /\ sessions'[i].outcomes[Len(sessions'[i].outcomes)] = "failed"

\* C24: a launch failure and a command that fails after the navigation add no
\* block record in either list and leave the sessions of the other givers as
\* they are; a session is skipped only for a shutdown or for an exception of
\* an earlier session, never for such a failure.
C24_FailureDoesNotBlock ==
    /\ [][\A i \in 1..Len(sessions) :
             (LaunchFails(i) \/ CommandFails(i))
                => /\ UNCHANGED <<unauthorized_accounts, blocked_accounts>>
                   /\ \A j \in 1..Len(sessions) :
                         j /= i => sessions'[j] = sessions[j]]_vars
    /\ [](\A i \in 1..Len(sessions) :
             sessions[i].pc = "skipped"
                => \/ is_shutting_down
                   \/ \E j \in 1..(i - 1) : sessions[j].error)

\* a launch failed and a command failed in earlier sessions, no account is
\* blocked, and the session of another giver planned after them has started
C24_Witness ==
    /\ unauthorized_accounts = EmptyDict
    /\ blocked_accounts = EmptyDict
    /\ block_accounts_enabled
    /\ \E i, j, n \in 1..Len(sessions) :
          /\ i < j /\ j < n
          /\ sessions[i].browser = "failed"
          /\ sessions[j].outcomes = <<"failed">>
          /\ groups[n].giver \notin {groups[i].giver, groups[j].giver}
          /\ sessions[n].browser = "started"

----------------------------------------------------------------------------
\* Claims on the records of parallel workers (SpecRun)

\* the executed actions of the run: <<i, n>> is the n-th outcome of session i
Executions ==
    UNION {{<<i, n>> : n \in 1..Len(sessions[i].outcomes)} :
              i \in 1..Len(sessions)}

ActionOf(e) == groups[e[1]].actions[sessions[e[1]].executed[e[2]]]

Succeeded(e) == sessions[e[1]].outcomes[e[2]] = "ok"

\* the actions recorded as failed by a session whose launch failed
LaunchRecords ==
    UNION {{<<i, n>> : n \in 1..Len(groups[i].actions)} :
              i \in {j \in 1..Len(sessions) : sessions[j].browser = "failed"}}

\* C25: in parallel mode the counters of every account and of the day are the
\* sums over the outcomes of all workers, each successful outcome counted
\* once and no failed one; the log of the day has one entry per recorded
\* outcome; and the document on disk is the one of the state in memory, which
\* whole record_action calls produced.
C25_RecordsDoNotInterleave ==
    runs_parallel =>
       /\ \A a \in PlanNames, kind \in Kinds :
             /\ GivenOf(accounts, a, kind) =
                   Cardinality({e \in Executions :
                       /\ Succeeded(e)
                       /\ groups[e[1]].giver.name = a
                       /\ ActionOf(e).action = kind})
             /\ ReceivedOf(accounts, a, kind) =
                   Cardinality({e \in Executions :
                       /\ Succeeded(e)
                       /\ ActionOf(e).receiver.name = a
                       /\ ActionOf(e).action = kind})
       /\ \A kind \in Kinds :
             TotalOf(daily_stats, today, kind) =
                Cardinality({e \in Executions :
                                Succeeded(e) /\ ActionOf(e).action = kind})
       /\ LogLen(daily_stats, today) =
             Cardinality(Executions) + Cardinality(LaunchRecords)
       /\ state_file = save_state_doc(accounts, daily_stats, settings, today)

\* two workers are done, and the record of the second worker's action lies
\* between the two records of the first worker's session
C25_Witness ==
    /\ runs_parallel
    /\ RunOver
    /\ Len(groups) = 2
    /\ LogLen(daily_stats, today) = 3
    /\ \A e \in Executions : Succeeded(e)
    /\ daily_stats[today].actions[1].giver = "A"
    /\ daily_stats[today].actions[2].giver = "B"
    /\ daily_stats[today].actions[3].giver = "A"

----------------------------------------------------------------------------
\* Claims on blocking and unblocking (SpecBlock)

IsBlocked(n) ==
    is_account_blocked(unauthorized_accounts, blocked_accounts, n, ProfileOf[n])

\* the step is unblock_account(n, ...)
Unblocks(n) == lastOp' = "unblock" /\ lastCall'.giver = n

\* C26: a blocked account stays blocked through planning calls and block
\* calls, and it is no longer blocked, and back among the accounts that go
\* into the planning, once unblock_account(name) is called for both lists.
C26_OneWayGate ==
    [][\A n \in PlanNames :
          /\ (IsBlocked(n) /\ ~Unblocks(n)) => IsBlocked(n)'
          /\ (Unblocks(n) /\ lastCall'.action = NoType)
                => /\ ~IsBlocked(n)'
                   /\ Contains(filter_blocked_accounts(FullRoster,
                          unauthorized_accounts', blocked_accounts'), Account(n))]_vars

----------------------------------------------------------------------------
\* Claims on the chain mode (SpecChain)

\* the roster holds n >= 2 accounts with distinct names, none of them blocked
ChainOfUnblocked ==
    /\ Len(roster) >= 2
    /\ \A i, j \in 1..Len(roster) : i /= j => roster[i].name /= roster[j].name
    /\ \A i \in 1..Len(roster) :
          ~is_account_blocked(unauthorized_accounts, blocked_accounts,
                              roster[i].name, roster[i].adspower_id)

\* C27: the chain over n >= 2 unblocked accounts with distinct names and both
\* actions enabled has exactly 2n items: a bless and then a curse from each
\* account, in roster order, to its successor (the last to the first), none
\* with the giver as receiver.
C27_ChainPlan ==
    (planInfo.planned /\ planInfo.both_actions /\ ChainOfUnblocked)
       => /\ Len(plan) = 2 * Len(roster)
          /\ \A i \in 1..Len(roster) :
                /\ plan[2 * i - 1] = [giver |-> roster[i],
                                      receiver |-> roster[(i % Len(roster)) + 1],
                                      action |-> "bless"]
                /\ plan[2 * i] = [giver |-> roster[i],
                                  receiver |-> roster[(i % Len(roster)) + 1],
                                  action |-> "curse"]
          /\ \A k \in 1..Len(plan) : plan[k].giver.name /= plan[k].receiver.name

\* the chain of three accounts: six items
C27_Witness ==
    /\ planInfo.planned
    /\ planInfo.both_actions
    /\ ChainOfUnblocked
    /\ Len(roster) = 3
    /\ Len(plan) = 6

----------------------------------------------------------------------------
\* Claims on accounts that met their targets (SpecPlan)

\* account n received its targets of both kinds
TargetsMet(n) ==
    /\ n \in DOMAIN accounts
    /\ accounts[n].bless_received >= settings.target_bless
    /\ accounts[n].curse_received >= settings.target_curse

\* C28: an account that received at least its target of blesses and of curses
\* is the receiver of no pair of the plan, and needs_bless and needs_curse
\* report 0 remaining for it.
C28_NoReceiverPastTarget ==
    planInfo.planned =>
       \A n \in PlanNames :
          TargetsMet(n)
             => /\ \A k \in 1..Len(plan) : plan[k].receiver.name /= n
                /\ bless_remaining(accounts, settings, n) = 0
                /\ curse_remaining(accounts, settings, n) = 0

\* a plan next to an account of the roster that met both targets, one of
\* them with more than the target
C28_Witness ==
    /\ planInfo.planned
    /\ plan /= <<>>
    /\ \E i \in 1..Len(roster) :
          /\ TargetsMet(roster[i].name)
          /\ accounts[roster[i].name].bless_received > settings.target_bless

----------------------------------------------------------------------------
\* Claims on the order of execution (SpecRun)

\* the place of the first item of the plan whose giver is the giver of group i
FirstAppearance(i) ==
    CHOOSE k \in 1..Len(plan) :
        /\ plan[k].giver.name = groups[i].giver.name
        /\ \A m \in 1..(k - 1) : plan[m].giver.name /= groups[i].giver.name

\* the actions of group i are items of the plan, in the order of the plan
InPlanOrder(i) ==
    \E f \in [1..Len(groups[i].actions) -> 1..Len(plan)] :
        /\ \A m, n \in 1..Len(groups[i].actions) : m < n => f[m] < f[n]
        /\ \A m \in 1..Len(groups[i].actions) :
              plan[f[m]] = [giver |-> groups[i].giver,
                            receiver |-> groups[i].actions[m].receiver,
                            action |-> groups[i].actions[m].action]

\* the sessions are the groups of a batch mode that is enabled
Batched ==
    \E batch_mode \in BatchChoices :
        batch_mode.enabled /\ groups = make_groups(plan, batch_mode)

\* session i has left the queue and was not skipped
Launched(i) == sessions[i].pc \notin {"pending", "skipped"}

\* C29: a session starts its actions in the order they have in the plan; in
\* sequential mode the groups are started in the order of the first
\* appearance of their givers in the plan, and a session is started only when
\* every session before it is closed.
C29_ExecutionOrder ==
    /\ \A i \in 1..Len(sessions) :
          /\ InPlanOrder(i)
          /\ \A m, n \in 1..Len(sessions[i].executed) :
                m < n => sessions[i].executed[m] < sessions[i].executed[n]
    /\ ~runs_parallel =>
          \A i, j \in 1..Len(sessions) :
             (i < j /\ Launched(j))
                => /\ Finished(sessions[i])
                   /\ Batched => FirstAppearance(i) <= FirstAppearance(j)

\* a sequential run of groups: the first session executed its two actions
\* and is closed, the session of the second giver is open
C29_Witness ==
    /\ ~runs_parallel
    /\ Batched
    /\ Len(sessions) = 2
    /\ sessions[1].executed = <<1, 2>>
    /\ sessions[1].pc = "done"
    /\ Open(sessions[2])

----------------------------------------------------------------------------
\* Claims on batching (SpecChain)

\* the sessions were made, by a batch mode with a positive bound
BatchedWithBound ==
    /\ planInfo.planned
    /\ "batch_mode" \in DOMAIN planInfo
    /\ planInfo.batch_mode.enabled
    /\ planInfo.batch_mode.max_actions_per_session > 0

\* the plan items of the sessions i.. of giver g, in the order of the sessions
RECURSIVE ItemsOfSessions(_, _)
ItemsOfSessions(g, i) ==
    IF i > Len(groups) THEN <<>>
    ELSE (IF groups[i].giver.name = g
          THEN [k \in 1..Len(groups[i].actions) |->
                   [giver |-> groups[i].giver,
                    receiver |-> groups[i].actions[k].receiver,
                    action |-> groups[i].actions[k].action]]
          ELSE <<>>) \o ItemsOfSessions(g, i + 1)

\* the number of actions in all sessions
RECURSIVE ActionsFrom(_)
ActionsFrom(i) ==
    IF i > Len(groups) THEN 0 ELSE Len(groups[i].actions) + ActionsFrom(i + 1)

\* C30: with batching enabled and a positive bound every session holds at
\* most the bound of actions, of one giver, the sessions of a giver put end
\* to end are the giver's items of the plan in plan order, and the sessions
\* hold as many actions as the plan has items.
C30_Batching ==
    BatchedWithBound =>
       /\ \A i \in 1..Len(groups) :
             Len(groups[i].actions) <= planInfo.batch_mode.max_actions_per_session
       /\ \A g \in PlanNames :
             ItemsOfSessions(g, 1) = SelectSeq(plan, LAMBDA p : p.giver.name = g)
       /\ ActionsFrom(1) = Len(plan)

\* a giver with four items in two places of the plan, split into two
\* sessions of two actions
C30_Witness ==
    /\ BatchedWithBound
    /\ planInfo.batch_mode.max_actions_per_session = 2
    /\ Len(plan) = 6
    /\ \E i, j \in 1..Len(groups) :
          /\ i < j
          /\ groups[i].giver = groups[j].giver
          /\ Len(groups[i].actions) = 2
          /\ Len(groups[j].actions) = 2
          /\ plan[1].giver = groups[i].giver
          /\ plan[3].giver /= groups[i].giver
          /\ plan[5].giver = groups[i].giver

----------------------------------------------------------------------------
\* Claims on the capacity of the givers (SpecPlan)

\* the number of items of the plan given by account g
ItemsGivenBy(g) == Cardinality({k \in 1..Len(plan) : plan[k].giver.name = g})

\* remaining_today of account g in the list of _get_available_givers, 0 for
\* an account that is not in the list
RemainingAtStart(g) ==
    LET at == {i \in 1..Len(planInfo.givers) : planInfo.givers[i].name = g}
    IN IF at = {} THEN 0
       ELSE planInfo.givers[CHOOSE i \in at : TRUE].remaining_today

\* C31: in a plan returned by get_optimal_pairs no giver has more items than
\* it could still give today when the call began: the daily limit minus what
\* it gave today, and nothing for a giver that is at the limit.
C31_PlannerCapacity ==
    planInfo.planned =>
       \A g \in PlanNames :
          /\ ItemsGivenBy(g) <= RemainingAtStart(g)
          /\ (g \in DOMAIN accounts /\ RemainingAtStart(g) > 0)
                => RemainingAtStart(g) =
                      settings.daily_limit_per_account
                         - (accounts[g].bless_given_today
                               + accounts[g].curse_given_today)

\* a giver was given as many items as it had left, and the queue held more
C31_Witness ==
    /\ planInfo.planned
    /\ \E g \in PlanNames :
          /\ RemainingAtStart(g) > 0
          /\ ItemsGivenBy(g) = RemainingAtStart(g)
          /\ planInfo.queue_len > Len(plan)

----------------------------------------------------------------------------
\* Claims on the stop loop of cleanup (SpecRun)

\* C32: when the stop loop of cleanup() is through, every profile of the set
\* was asked to stop and was removed from the set, whatever its stop call
\* did, so the set is empty when cleanup() goes on to close the client and
\* returns.
C32_CleanupEmptiesSet ==
    (cleanup.loops > 0 /\ cleanup.pc \in {"closing", "idle"})
       => active_profiles = <<>>

----------------------------------------------------------------------------
\* Claims on the conservation of the counts (SpecStore)

\* the sum of the values of a function with a finite domain
RECURSIVE SumOf(_)
SumOf(f) ==
    IF DOMAIN f = {} THEN 0
    ELSE LET x == CHOOSE x \in DOMAIN f : TRUE
         IN f[x] + SumOf([y \in DOMAIN f \ {x} |-> f[y]])

ReceivedSum(kind) ==
    SumOf([n \in DOMAIN accounts |-> ReceivedOf(accounts, n, kind)])

TotalsSum(kind) ==
    SumOf([d \in DOMAIN daily_stats |-> TotalOf(daily_stats, d, kind)])

\* the entries of all logs with the action kind and success true
LoggedSum(kind) ==
    SumOf([d \in DOMAIN daily_stats |->
              Cardinality({k \in 1..Len(daily_stats[d].actions) :
                              /\ daily_stats[d].actions[k].action = kind
                              /\ daily_stats[d].actions[k].success})])

\* C33: from an empty store on, through record_action calls, day changes,
\* saves and loads, the blesses received by all accounts are as many as the
\* total_bless of all days and as the successful bless entries of all logs,
\* and the same holds for the curses.
C33_CountsConserved ==
    \A kind \in Kinds :
       /\ ReceivedSum(kind) = TotalsSum(kind)
       /\ TotalsSum(kind) = LoggedSum(kind)

\* two successful blesses recorded on two days, and the state loaded anew
C33_Witness ==
    /\ lastOp = "load"
    /\ Cardinality(DOMAIN daily_stats) = 2
    /\ ReceivedSum("bless") = 2
    /\ \A d \in DOMAIN daily_stats : TotalOf(daily_stats, d, "bless") = 1

----------------------------------------------------------------------------
\* Claims on the given-today counters (SpecStore)

\* the successful actions of today's log given by account n
GivenLoggedToday(n) ==
    IF today \notin DOMAIN daily_stats THEN 0
    ELSE Cardinality({k \in 1..Len(daily_stats[today].actions) :
                         /\ daily_stats[today].actions[k].giver = n
                         /\ daily_stats[today].actions[k].success})

\* C34: for every account whose last_action_date is the current date, the
\* two given-today counters add up to the successful actions today's log
\* holds for it as giver, also after a day change followed by a
\* record_action with no load and no can_give_action_today in between.
C34_GivenTodayIsToday ==
    \A n \in DOMAIN accounts :
       accounts[n].last_action_date = today
          => accounts[n].bless_given_today + accounts[n].curse_given_today
                = GivenLoggedToday(n)

----------------------------------------------------------------------------
\* Claims on the items of a plan per receiver (SpecPlan)

\* the number of items of the plan for receiver n with the given action
ItemsFor(n, kind) ==
    Cardinality({k \in 1..Len(plan) :
                    plan[k].receiver.name = n /\ plan[k].action = kind})

\* what account n has received of the given action, 0 for an unknown account
ReceivedBy(n, kind) ==
    IF n \notin DOMAIN accounts THEN 0
    ELSE IF kind = "bless" THEN accounts[n].bless_received
    ELSE accounts[n].curse_received

\* the target of the given action
TargetOf(kind) ==
    IF kind = "bless" THEN settings.target_bless ELSE settings.target_curse

\* C35: a plan returned by get_optimal_pairs holds at most one item per
\* receiver and action, and only for an action the receiver has not yet
\* received as often as the target asks; so a receiver that was not past a
\* target before the run is not past it after every item of the plan
\* succeeded.
C35_OneItemPerReceiverAndKind ==
    planInfo.planned =>
       \A n \in PlanNames : \A kind \in {"bless", "curse"} :
          /\ ItemsFor(n, kind) <= 1
          /\ ItemsFor(n, kind) > 0 => TargetOf(kind) - ReceivedBy(n, kind) > 0
          /\ ReceivedBy(n, kind) <= TargetOf(kind)
                => ReceivedBy(n, kind) + ItemsFor(n, kind) <= TargetOf(kind)

\* a plan with both actions for one receiver and with one action only for
\* another receiver, which has met the target of the other action
C35_Witness ==
    /\ planInfo.planned
    /\ \E n, m \in PlanNames :
          /\ n /= m
          /\ ItemsFor(n, "bless") = 1 /\ ItemsFor(n, "curse") = 1
          /\ ItemsFor(m, "curse") = 1 /\ ItemsFor(m, "bless") = 0
          /\ ReceivedBy(m, "bless") = TargetOf("bless")
----------------------------------------------------------------------------
\* Claims on the set of open profiles (SpecRun)

\* the profiles with a session between a successful start and the return of
\* its stop call
OpenProfiles == {groups[i].giver.adspower_id : i \in OpenSessions}

\* the profiles a cleanup() that began now would ask to stop
CleanupWouldReach == {active_profiles[k] : k \in 1..Len(active_profiles)}

\* C36: in sequential and in parallel mode, with batching on or off, every
\* profile whose start succeeded and whose stop call has not returned is in
\* active_profiles, so that a cleanup() at that moment would stop it.
C36_OpenProfilesRegistered == OpenProfiles \subseteq CleanupWouldReach
----------------------------------------------------------------------------
\* The plan generators of the modes "target" and "manual"

\* generate_target_pairs: the receiver made of the target's username
target_of(target_username) ==
    [name |-> "Target: " \o target_username, discord_username |-> target_username]

\* generate_target_pairs(accounts, target_username, account_mgr)
RECURSIVE generate_target_pairs(_, _, _, _)
generate_target_pairs(accs, target_username, unauthorized, blocked) ==
    IF accs = <<>> THEN <<>>
    ELSE LET account == Head(accs)
             rest == generate_target_pairs(Tail(accs), target_username,
                                           unauthorized, blocked)
         IN IF is_account_blocked(unauthorized, blocked, account.name,
                                  account.adspower_id)
            THEN rest
            ELSE <<[giver |-> account, receiver |-> target_of(target_username),
                    action |-> "bless"],
                   [giver |-> account, receiver |-> target_of(target_username),
                    action |-> "curse"]>> \o rest

\* load_manual_pairs: accounts_by_name = {acc["name"]: acc for acc in accounts};
\* of two accounts of one name the later one stays
accounts_by_name(accs) ==
    [n \in {accs[i].name : i \in 1..Len(accs)} |->
        accs[CHOOSE i \in 1..Len(accs) :
                /\ accs[i].name = n
                /\ \A j \in (i + 1)..Len(accs) : accs[j].name /= n]]

\* account.get("adspower_id", "")
adspower_id_of(account) ==
    IF "adspower_id" \in DOMAIN account THEN account.adspower_id ELSE NoId

\* load_manual_pairs: the item made of one entry of "pairs", or nothing
manual_pair_of(pair, by_name, unauthorized, blocked) ==
    IF pair.giver \notin DOMAIN by_name THEN <<>>
    ELSE LET giver == by_name[pair.giver]
             receiver == IF pair.receiver \in DOMAIN by_name
                         THEN by_name[pair.receiver]
                         ELSE [name |-> pair.receiver,
                               discord_username |-> pair.receiver]
         IN IF \/ is_account_blocked(unauthorized, blocked, pair.giver,
                                     adspower_id_of(giver))
               \/ is_account_blocked(unauthorized, blocked, pair.receiver,
                                     adspower_id_of(receiver))
            THEN <<>>
            ELSE <<[giver |-> giver, receiver |-> receiver, action |-> pair.action]>>

\* load_manual_pairs(accounts, account_mgr): the items of the entries of
\* pairs.json in their order, nothing for a file that is missing or is no JSON
RECURSIVE load_manual_pairs(_, _, _, _)
load_manual_pairs(accs, file, unauthorized, blocked) ==
    IF ~file.readable \/ file.pairs = <<>> THEN <<>>
    ELSE manual_pair_of(Head(file.pairs), accounts_by_name(accs),
                        unauthorized, blocked)
         \o load_manual_pairs(accs, [file EXCEPT !.pairs = Tail(@)],
                              unauthorized, blocked)

\* the lists of accounts of a configuration whose names are distinct
DistinctRosters ==
    {accs \in ChainRosters :
        \A i, j \in 1..Len(accs) : i /= j => accs[i].name /= accs[j].name}

\* the target_username of the configuration
TargetUsernames == {"A", "zed"}

\* the most entries of a pairs.json
MaxPairs == 2

\* the names written in a pairs.json: accounts of the roster or not
ManualNames == {"A", "B", "X"}

\* the entries of a pairs.json
ManualEntries ==
    {[giver |-> g, receiver |-> r, action |-> a] :
        g \in ManualNames, r \in ManualNames, a \in {"bless", "curse"}}

\* pairs.json: missing or damaged, or a list of entries
ManualFiles ==
    {[readable |-> FALSE, pairs |-> <<>>]}
    \cup {[readable |-> TRUE, pairs |-> p] :
             p \in UNION {[1..n -> ManualEntries] : n \in 0..MaxPairs}}

InitGen ==
    /\ InitStore
    /\ unauthorized_accounts \in UnauthorizedChoices
    /\ blocked_accounts \in BlockedChoices
    /\ block_accounts_enabled = TRUE
    /\ roster \in DistinctRosters
    /\ max_actions = 0
    /\ plan = <<>>
    /\ planInfo = NoPlan
    /\ InitIdleRun

\* _generate_pairs_for_mode with mode "target"
GenerateTargetPairs(target_username) ==
    /\ ~planInfo.planned
    /\ plan' = generate_target_pairs(roster, target_username,
                                     unauthorized_accounts, blocked_accounts)
    /\ planInfo' = [planned |-> TRUE, mode |-> "target",
                    target_username |-> target_username]
    /\ UNCHANGED <<storeVars, histVars, mgrVars, roster, max_actions, runVars>>

\* _generate_pairs_for_mode with mode "manual"
LoadManualPairs(file) ==
    /\ ~planInfo.planned
    /\ plan' = load_manual_pairs(roster, file, unauthorized_accounts,
                                 blocked_accounts)
    /\ planInfo' = [planned |-> TRUE, mode |-> "manual", file |-> file]
    /\ UNCHANGED <<storeVars, histVars, mgrVars, roster, max_actions, runVars>>

NextGen ==
    \/ \E both_actions \in BOOLEAN : GenerateChainPairs(both_actions)
    \/ \E target_username \in TargetUsernames : GenerateTargetPairs(target_username)
    \/ \E file \in ManualFiles : LoadManualPairs(file)

SpecGen == InitGen /\ [][NextGen]_vars

----------------------------------------------------------------------------
\* Claims on the plans of the modes other than "smart" (SpecGen)

\* C37: for a roster of distinct names and any pairs.json, no item of a plan
\* made by generate_chain_pairs, generate_target_pairs or load_manual_pairs
\* has a giver whose name is the name of its receiver.
C37_NoSelfItem ==
    planInfo.planned =>
       \A k \in 1..Len(plan) : plan[k].giver.name /= plan[k].receiver.name
----------------------------------------------------------------------------
\* Claims on the totals of a run (SpecRun)

\* no session of the run ended on an exception
NoSessionRaised == \A i \in 1..Len(sessions) : ~sessions[i].error

\* the entries of today's log that are records of the item p of the plan
LogEntriesOf(p) ==
    {k \in 1..LogLen(daily_stats, today) :
        /\ daily_stats[today].actions[k].giver = plan[p].giver.name
        /\ daily_stats[today].actions[k].receiver = plan[p].receiver.name
        /\ daily_stats[today].actions[k].action = plan[p].action}

\* the entries of today's log with success = True
SuccessRecords ==
    {k \in 1..LogLen(daily_stats, today) : daily_stats[today].actions[k].success}

\* C38: in every state of a run in which no session raised, every item of
\* the plan has at most one record in the log; and when the run is over, completed + failed is the number of
\* record_action calls of the run, completed the number of those with success
\* = True, and the records are those of the actions that were executed or
\* whose launch failed: an action skipped for a block or for the flag has no
\* record and is not counted.
C38_OutcomeAccounting ==
    [](NoSessionRaised =>
          /\ \A p \in 1..Len(plan) : Cardinality(LogEntriesOf(p)) <= 1
          /\ LogLen(daily_stats, today)
                = Cardinality(Executions) + Cardinality(LaunchRecords)
          /\ RunOver =>
                /\ totals.completed + totals.failed = LogLen(daily_stats, today)
                /\ totals.completed = Cardinality(SuccessRecords)
                /\ totals.completed = Cardinality({e \in Executions : Succeeded(e)}))

\* a finished run with a success, a failure and an action that was skipped:
\* two records for the three items of the plan
C38_Witness ==
    /\ NoSessionRaised
    /\ RunOver
    /\ totals.completed = 1
    /\ totals.failed = 1
    /\ LogLen(daily_stats, today) = 2
    /\ \E p \in 1..Len(plan) : LogEntriesOf(p) = {}
----------------------------------------------------------------------------
\* Claims on blocked receivers at the start of an action (SpecRun)

\* session i begins an action in the step: _execute_discord_action is called
Starts(i) ==
    /\ sessions'[i].pc = "acting"
    /\ sessions[i].pc /= "acting" \/ sessions'[i].k /= sessions[i].k

\* the receiver of the k-th action of session i is in a block list after the step
ReceiverBlockedThen(i, k) ==
    is_account_blocked(unauthorized_accounts', blocked_accounts',
                       groups[i].actions[k].receiver.name,
                       groups[i].actions[k].receiver.adspower_id)

\* the step adds the record of an action that session i had begun
RecordsStarted(i) ==
    /\ sessions[i].pc = "acting"
    /\ sessions'[i].executed = Append(sessions[i].executed, sessions[i].k)
    /\ LogLen(daily_stats', today) = LogLen(daily_stats, today) + 1
    /\ LET entry == daily_stats'[today].actions[LogLen(daily_stats', today)]
           act == groups[i].actions[sessions[i].k]
       IN /\ entry.giver = groups[i].giver.name
          /\ entry.receiver = act.receiver.name
          /\ entry.action = act.action

\* C39: a session begins an action only against a receiver that is in neither
\* block list at that moment, also when the receiver was blocked by another
\* session of the run; it passes over the actions whose receiver is blocked
\* and begins the next one whose receiver is not; and apart from the records
\* of a launch failure, a record is written only for an action that was begun.
C39_NoActionOnBlockedReceiver ==
    [][/\ \A i \in 1..Len(sessions) :
             Starts(i) =>
                /\ ~ReceiverBlockedThen(i, sessions'[i].k)
                /\ \A k \in sessions[i].k..(sessions'[i].k - 1) :
                      k \in DOMAIN groups[i].actions
                         => \/ ReceiverBlockedThen(i, k)
                            \/ sessions[i].pc = "acting" /\ k = sessions[i].k
       /\ LogLen(daily_stats', today) /= LogLen(daily_stats, today)
             => \/ \E i \in 1..Len(sessions) : LaunchFails(i)
                \/ \E i \in 1..Len(sessions) : RecordsStarted(i)]_vars

\* a session passed over its first action, whose receiver was blocked by
\* another session of the run, and executed its second
C39_Witness ==
    \E i \in 1..Len(sessions) :
        /\ Len(groups[i].actions) = 2
        /\ sessions[i].executed = <<2>>
        /\ is_account_blocked(unauthorized_accounts, blocked_accounts,
                              groups[i].actions[1].receiver.name,
                              groups[i].actions[1].receiver.adspower_id)
        /\ ~is_account_blocked(unauthorized_accounts, blocked_accounts,
                               groups[i].giver.name, groups[i].giver.adspower_id)
====
